---- MODULE Spec2Model ----
(***************************************************************************)
(* A model of the rolling capacity-forecast engine of                      *)
(* backend/app/ml_forecast.py: the two process-wide caches (load_feat_df,  *)
(* _load_cfg_and_artifacts), the vehicle slice, the hybrid seq2seq + GP    *)
(* residual forecaster, the static SVR/GPR baselines with their on-disk    *)
(* cache, and run_forecast.                                                *)
(*                                                                         *)
(* Numbers.  A float is a record [nan, v]: NaN is [nan |-> TRUE, v |-> 0], *)
(* a number x is [nan |-> FALSE, v |-> x] with x an integer (capacities in *)
(* tenths of an Ah, say).  An optional value (Python None, JSON null) is a *)
(* sequence of length at most one: <<>> is None, <<x>> is x.               *)
(*                                                                         *)
(* Scalers.  A fitted scaler z = (x - mean)/scale is kept exact by holding *)
(* every scaled value as its numerator x - mean over the fixed denominator *)
(* scale; inverse_transform adds the mean back.                            *)
(***************************************************************************)
EXTENDS Integers, Sequences, FiniteSets, TLC

\* ------------------------------------------------------------------ bounds
MaxRows == 3      \* most rows the file holds for the vehicle under study
MaxK == 3         \* largest n_known argument a caller passes
MaxH == 3         \* largest horizon argument a caller passes
MaxNegH == 3      \* callers pass horizons down to -MaxNegH
NThreads == 2     \* concurrent callers in the threaded specifications
MaxOperators == 2 \* operator ids the generator draws from
MaxLoads == 2     \* artifact loads counted per process
MaxSuffix == 2     \* vehicle uid suffixes token_hex draws from

\* ------------------------------------------------------------------ values
None == <<>>
Some(x) == <<x>>
IsNone(o) == o = <<>>
Get(o) == o[1]

NaN == [nan |-> TRUE, v |-> 0]
Num(x) == [nan |-> FALSE, v |-> x]
IsNaN(a) == a.nan
FAdd(a, b) == IF a.nan \/ b.nan THEN NaN ELSE Num(a.v + b.v)
FSub(a, b) == IF a.nan \/ b.nan THEN NaN ELSE Num(a.v - b.v)

Min(a, b) == IF a <= b THEN a ELSE b
Max(a, b) == IF a >= b THEN a ELSE b

RECURSIVE SumSeq(_)
SumSeq(s) == IF s = <<>> THEN 0 ELSE Head(s) + SumSeq(Tail(s))

\* s[a..b) with Python's slice rules for 0-based positions 0 <= a, b
PySlice(s, a, b) ==
  LET lo == Min(Max(a, 0), Len(s))
      hi == Min(Max(b, 0), Len(s))
  IN  IF hi <= lo THEN <<>> ELSE SubSeq(s, lo + 1, hi)

\* Python's s[-n:] for n >= 0: the last n entries; s[-0:] is all of s
LastN(s, n) == IF n = 0 \/ n >= Len(s) THEN s ELSE SubSeq(s, Len(s) - n + 1, Len(s))

\* ------------------------------------------------------------ file formats
\* A raw CSV cell of a numeric column: a numeral, or text that is no number.
Cell(x) == [txt |-> "num", v |-> x]
BadCell == [txt |-> "bad", v |-> 0]

\* pd.to_numeric(errors="coerce"): invalid values become missing
ToNumeric(cell) == IF cell.txt = "num" THEN Num(cell.v) ELSE NaN

FeatureCols == {"f1"}
TempCols == {"Tmax_ave", "Tmin_ave"}
KeyCols == {"vehicle", "Month", "month_ts", "Ca"}
AllCols == KeyCols \cup FeatureCols \cup TempCols

CaAt(ts) == 10 - ts

\* One raw row of the feature CSV.  gapCa / gapF say whether the capacity /
\* the feature cell of this row holds no number.
RawRow(vid, ts, gapCa, gapF) ==
  [vehicle |-> vid, month_ts |-> ts, Month |-> ((ts - 1) % 12) + 1,
   Ca |-> IF gapCa THEN BadCell ELSE Cell(CaAt(ts)),
   f1 |-> IF gapF THEN BadCell ELSE Cell((2 * ts + vid) % 5),
   Tmax_ave |-> Cell(30 + ts), Tmin_ave |-> Cell(10 + (ts % 2))]

\* The rows of the vehicle under study (vehicle 1), in file order.
RawRows1(n, caGap, fGap, order) ==
  LET asc == [i \in 1..n |-> RawRow(1, i, i = caGap, i = fGap)]
  IN  IF order = "asc" THEN asc
      ELSE \* newest first, and the oldest month written twice
           [i \in 1..n |-> asc[n + 1 - i]] \o
           (IF n > 0 THEN <<[asc[1] EXCEPT !.f1 = Cell(4)]>> ELSE <<>>)

\* Vehicle 2 always has two complete rows; vehicle 3 never occurs.
RawRows2 == <<RawRow(2, 1, FALSE, FALSE), RawRow(2, 2, FALSE, FALSE)>>

OkFiles ==
  { [cols |-> AllCols, rows |-> RawRows2 \o RawRows1(n, g[1], g[2], "asc")] :
      n \in 0..MaxRows, g \in {x \in (0..MaxRows) \X (0..MaxRows) : x[1] = 0 \/ x[2] = 0} }
  \cup
  { [cols |-> AllCols, rows |-> RawRows1(n, 0, 0, "desc") \o RawRows2] :
      n \in 1..MaxRows }

\* The files of OkFiles in which every capacity and feature cell is a number.
GaplessFiles ==
  { f \in OkFiles : \A i \in 1..Len(f.rows) : f.rows[i].Ca.txt = "num" /\ f.rows[i].f1.txt = "num" }

FullFile == [cols |-> AllCols, rows |-> RawRows2 \o RawRows1(MaxRows, 0, 0, "asc")]

\* The full table with the capacities of vehicle 1 at and below zero: each
\* lowered by 9 Ah (0, -1, -2, ...).
LowRow(r) == IF r.vehicle = 1 /\ r.Ca.txt = "num" THEN [r EXCEPT !.Ca = Cell(@.v - 9)] ELSE r
LowFile ==
  [cols |-> AllCols,
   rows |-> [i \in 1..(MaxRows + 2) |-> LowRow(FullFile.rows[i])]]

\* The same table with a column left out of the header.
Without(file, col) == [file EXCEPT !.cols = @ \ {col}]

\* ------------------------------------------------------------ load_feat_df
RowKeyLess(a, b) ==
  \/ a.vehicle < b.vehicle
  \/ a.vehicle = b.vehicle /\ a.month_ts < b.month_ts

\* insert r after every row that is not greater: the sort is stable
RECURSIVE InsertRow(_, _)
InsertRow(r, s) ==
  IF s = <<>> THEN <<r>>
  ELSE IF RowKeyLess(r, Head(s)) THEN <<r>> \o s
  ELSE <<Head(s)>> \o InsertRow(r, Tail(s))

RECURSIVE SortRows(_)
SortRows(s) ==
  IF s = <<>> THEN <<>>
  ELSE InsertRow(s[Len(s)], SortRows(SubSeq(s, 1, Len(s) - 1)))

\* drop_duplicates(["vehicle", "month_ts"]) on sorted rows keeps the first
RECURSIVE DropDuplicates(_)
DropDuplicates(s) ==
  IF Len(s) <= 1 THEN s
  ELSE IF s[1].vehicle = s[2].vehicle /\ s[1].month_ts = s[2].month_ts
       THEN DropDuplicates(<<s[1]>> \o SubSeq(s, 3, Len(s)))
       ELSE <<s[1]>> \o DropDuplicates(Tail(s))

CoerceRow(r) ==
  [vehicle |-> r.vehicle, month_ts |-> r.month_ts, Month |-> r.Month,
   Ca |-> ToNumeric(r.Ca), f1 |-> ToNumeric(r.f1),
   Tmax_ave |-> ToNumeric(r.Tmax_ave), Tmin_ave |-> ToNumeric(r.Tmin_ave)]

\* A loader that sorts the rows and keeps every one of them.
ReadFeatDfKeepAll(file) ==
  [cols |-> file.cols,
   rows |-> SortRows([i \in 1..Len(file.rows) |-> CoerceRow(file.rows[i])])]

\* The body of load_feat_df on a file that exists.
ReadFeatDf(file) ==
  [cols |-> file.cols,
   rows |-> DropDuplicates(SortRows([i \in 1..Len(file.rows) |-> CoerceRow(file.rows[i])]))]

Ok(v) == [ok |-> TRUE, val |-> v, err |-> "none"]
Fail(e) == [ok |-> FALSE, val |-> <<>>, err |-> e]

\* load_feat_df behind lru_cache(maxsize=1), one caller at a time: a hit
\* returns the cached table; a miss runs the body and caches what it
\* returns; an exception is not cached.  The result carries the new cache
\* and the files the call read.
LoadFeatDf(cache, file) ==
  IF ~IsNone(cache) THEN [out |-> Ok(Get(cache)), cache |-> cache, log |-> <<>>]
  ELSE IF IsNone(file) THEN [out |-> Fail("NotFound"), cache |-> cache, log |-> <<>>]
  ELSE LET df == ReadFeatDf(Get(file))
       IN  [out |-> Ok(df), cache |-> Some(df), log |-> <<"read:feat_csv">>]

\* ------------------------------------------------- _load_cfg_and_artifacts
ArtifactNames == {"seq2seq", "gpr_res", "ca_sc", "f_sc", "x2_sc"}
NeededCols == {"Tmax_ave", "Tmin_ave"}

\* A schema check that asks for Tmin_ave only.
CfgBodyTminOnly(cfg, df) ==
  IF "Tmin_ave" \notin df.cols THEN Fail("SchemaMismatch")
  ELSE Ok([use_features |-> cfg.USE_FEATURES,
           n_known_default |-> IF IsNone(cfg.N_KNOWN) THEN 6 ELSE Get(cfg.N_KNOWN),
           paths |-> ArtifactNames])

\* The body of _load_cfg_and_artifacts once the configuration file exists
\* and the feature table df is at hand: int(cfg.get("N_KNOWN", 6)).
CfgBody(cfg, df) ==
  IF (NeededCols \ df.cols) # {} THEN Fail("SchemaMismatch")
  ELSE Ok([use_features |-> cfg.USE_FEATURES,
           n_known_default |-> IF IsNone(cfg.N_KNOWN) THEN 6 ELSE Get(cfg.N_KNOWN),
           paths |-> ArtifactNames])

\* _load_cfg_and_artifacts behind its lru_cache, one caller at a time.
LoadCfgAndArtifacts(cache, fcache, cfgfile, file) ==
  IF ~IsNone(cache)
  THEN [out |-> Ok(Get(cache)), cache |-> cache, fcache |-> fcache, log |-> <<>>]
  ELSE IF IsNone(cfgfile)
  THEN [out |-> Fail("NotFound"), cache |-> cache, fcache |-> fcache, log |-> <<>>]
  ELSE LET f == LoadFeatDf(fcache, file)
           log == <<"read:features_f1.json">> \o f.log
       IN  IF ~f.out.ok
           THEN [out |-> f.out, cache |-> cache, fcache |-> f.cache, log |-> log]
           ELSE LET b == CfgBody(Get(cfgfile), f.out.val)
                IN  [out |-> b, cache |-> IF b.ok THEN Some(b.val) ELSE cache,
                     fcache |-> f.cache, log |-> log]

\* ---------------------------------------------------- _build_vehicle_slice
RECURSIVE SelectRows(_, _)
SelectRows(rows, vid) ==
  IF rows = <<>> THEN <<>>
  ELSE IF Head(rows).vehicle = vid /\ ~IsNaN(Head(rows).Ca)
       THEN <<Head(rows)>> \o SelectRows(Tail(rows), vid)
       ELSE SelectRows(Tail(rows), vid)

\* A slice that looks for the feature columns before it looks at the rows.
BuildVehicleSliceColumnsFirst(df, vid, use_features) ==
  LET d == SortRows(SelectRows(df.rows, vid))
      T == Len(d)
  IN  IF \E j \in 1..Len(use_features) : use_features[j] \notin df.cols
      THEN Fail("SchemaMismatch")
      ELSE IF T = 0 THEN Fail("VehicleNotFound")
      ELSE Ok([d |-> d,
               c |-> [i \in 1..T |-> d[i].Ca],
               X |-> [i \in 1..T |-> [j \in 1..Len(use_features) |-> d[i][use_features[j]]]],
               mon |-> [i \in 1..T |-> d[i].Month]])

\* df.loc[vehicle == vid].sort_values("month_ts").dropna(subset=["Ca"]);
\* c, X and mon are read off d row by row.
BuildVehicleSlice(df, vid, use_features) ==
  LET d == SortRows(SelectRows(df.rows, vid))
      T == Len(d)
  IN  IF T = 0 THEN Fail("VehicleNotFound")
      ELSE IF \E j \in 1..Len(use_features) : use_features[j] \notin df.cols
      THEN Fail("SchemaMismatch")
      ELSE Ok([d |-> d,
               c |-> [i \in 1..T |-> d[i].Ca],
               X |-> [i \in 1..T |-> [j \in 1..Len(use_features) |-> d[i][use_features[j]]]],
               mon |-> [i \in 1..T |-> d[i].Month]])

\* --------------------------------------------------- the fitted artifacts
\* The five artifacts are fixed, already-fitted objects.  The scalers are
\* affine maps; the sequence model and the residual GP are fixed functions
\* of their scaled inputs, sensitive to every cell of the input.
CaSc == [mean |-> 5]
FSc == [mean |-> 2]
X2Sc == [mean |-> 20]

ScTransform(sc, a) == IF IsNaN(a) THEN NaN ELSE Num(a.v - sc.mean)
ScInverse(sc, a) == IF IsNaN(a) THEN NaN ELSE Num(a.v + sc.mean)

RowHasNaN(row) == \E j \in 1..Len(row) : IsNaN(row[j])
RowSum(row) == SumSeq([j \in 1..Len(row) |-> (j + 1) * row[j].v])

\* seq2seq.predict(x_in).ravel()[0]: IEEE arithmetic carries a NaN anywhere
\* in the window through the network to the output.
SeqPredict(xin) ==
  IF \E j \in 1..Len(xin) : RowHasNaN(xin[j]) THEN NaN
  ELSE Num((SumSeq([j \in 1..Len(xin) |-> j * RowSum(xin[j])]) % 7) - 3)

\* gpr_res.predict(x2s)[0] on a finite input row
GprResPredict(x2s) == Num(((x2s[1].v + 2 * x2s[2].v + 3 * x2s[3].v) % 3) - 1)

\* ---------------------------------------------------- NaN-masked alignment
\* The positions (0-based) numpy's y[a:b] names in an array of length n,
\* for a >= 0 and any b: a negative stop counts from the end.
SlicePositions(n, a, b) ==
  LET stop == IF b < 0 THEN Max(n + b, 0) ELSE Min(b, n)
  IN  {i \in 0..(n - 1) : a <= i /\ i < stop}

\* y_pred = np.full_like(c, nan); y_pred[a:b] = pred.  Assigning to a slice
\* of another length raises ValueError.
AssignSlice(n, a, b, pred) ==
  LET pos == SlicePositions(n, a, b)
  IN  IF Cardinality(pos) # Len(pred) THEN Fail("LibraryValueError")
      ELSE Ok([i \in 1..n |-> IF (i - 1) \in pos THEN pred[i - a] ELSE NaN])

\* A time index that starts at 0.
TAllFromZero(n) == [i \in 1..n |-> i - 1]

\* t_all = np.arange(1, len(c) + 1)
TAll(n) == [i \in 1..n |-> i]

\* --------------------------------------------------- _forecast_seq2seq_gpr
\* A window that reads the measured capacities c[k - n_known : k] instead of
\* the fed-back ones (teacher forcing).
CapWindowTruth(c, c_win, k, n_known) == PySlice(c, k - n_known, k)

\* A window that takes the whole of c_win instead of its last n_known entries.
CapWindowWhole(c, c_win, k, n_known) == c_win

\* The capacity column of the window built at a step: c_win[-n_known:].
CapWindow(c, c_win, k, n_known) == LastN(c_win, n_known)

\* One pass of the loop body for the 0-based step k.
Seq2SeqStep(sl, c_win, k, n_known) ==
  LET cw == CapWindow(sl.c, c_win, k, n_known)
      Xw == PySlice(sl.X, k - n_known, k)
  IN  IF Len(cw) # Len(Xw) \/ Len(cw) = 0 THEN Fail("LibraryValueError")
      ELSE LET x_in == [j \in 1..Len(cw) |->
                          <<ScTransform(CaSc, cw[j])>> \o
                          [f \in 1..Len(Xw[j]) |-> ScTransform(FSc, Xw[j][f])]]
               yhat_s == SeqPredict(x_in)
               x2 == <<Num(sl.mon[k + 1]), sl.d[k + 1].Tmax_ave, sl.d[k + 1].Tmin_ave>>
               x2s == [j \in 1..3 |-> ScTransform(X2Sc, x2[j])]
           IN  IF RowHasNaN(x2s) THEN Fail("LibraryValueError")
               ELSE Ok(ScInverse(CaSc, FAdd(yhat_s, GprResPredict(x2s))))

\* for k in range(n_known, n_known + H): pred.append(y_next); c_win grows
RECURSIVE Seq2SeqLoop(_, _, _, _, _, _)
Seq2SeqLoop(sl, c_win, pred, k, stop, n_known) ==
  IF k >= stop THEN Ok(pred)
  ELSE LET y == Seq2SeqStep(sl, c_win, k, n_known)
       IN  IF ~y.ok THEN y
           ELSE Seq2SeqLoop(sl, Append(c_win, y.val), Append(pred, y.val),
                            k + 1, stop, n_known)

\* What the loop has at hand at each step it begins: k, c_win as the step
\* finds it, the two column blocks np.c_ joins into W, and y_next (or the
\* error that ends the loop).
RECURSIVE Seq2SeqWindows(_, _, _, _, _)
Seq2SeqWindows(sl, c_win, k, stop, n_known) ==
  IF k >= stop THEN <<>>
  ELSE LET y == Seq2SeqStep(sl, c_win, k, n_known)
           w == [k |-> k, c_win |-> c_win,
                 Wc |-> CapWindow(sl.c, c_win, k, n_known),
                 Wx |-> PySlice(sl.X, k - n_known, k), y |-> y]
       IN  IF ~y.ok THEN <<w>>
           ELSE <<w>> \o Seq2SeqWindows(sl, Append(c_win, y.val), k + 1, stop, n_known)

\* The forecast on a slice that has passed the history check.
Seq2SeqCurve(sl, n_known, max_h) ==
  LET T == Len(sl.c)
      H == Min(max_h, T - n_known)
      p == Seq2SeqLoop(sl, PySlice(sl.c, 0, n_known), <<>>, n_known, n_known + H, n_known)
  IN  IF ~p.ok THEN p
      ELSE LET y == AssignSlice(T, n_known, n_known + H, p.val)
           IN  IF ~y.ok THEN y
               ELSE Ok([t |-> TAll(T), y_true |-> sl.c, y_pred |-> y.val])

\* A history check that lets a vehicle with exactly n_known rows through.
ForecastSeq2SeqGprLax(df, vehicle, n_known, max_h, use_features, artifactsOk) ==
  IF ~artifactsOk THEN Fail("ArtifactLoadError")
  ELSE LET s == BuildVehicleSlice(df, vehicle, use_features)
       IN  IF ~s.ok THEN s
           ELSE IF Len(s.val.c) < n_known THEN Fail("InsufficientHistory")
           ELSE Seq2SeqCurve(s.val, n_known, max_h)

\* _forecast_seq2seq_gpr: load the five artifacts, slice, check, forecast.
ForecastSeq2SeqGpr(df, vehicle, n_known, max_h, use_features, artifactsOk) ==
  IF ~artifactsOk THEN Fail("ArtifactLoadError")
  ELSE LET s == BuildVehicleSlice(df, vehicle, use_features)
       IN  IF ~s.ok THEN s
           ELSE IF Len(s.val.c) <= n_known THEN Fail("InsufficientHistory")
           ELSE Seq2SeqCurve(s.val, n_known, max_h)

\* --------------------------------------------------- static SVR / GPR
StaticKinds == {"svr", "gpr"}

RECURSIVE DropNaCa(_)
DropNaCa(rows) ==
  IF rows = <<>> THEN <<>>
  ELSE IF IsNaN(Head(rows).Ca) THEN DropNaCa(Tail(rows))
       ELSE <<Head(rows)>> \o DropNaCa(Tail(rows))

\* vids = sorted(df["vehicle"].unique())[:10]; df[df["vehicle"].isin(vids)]
TrainRows(df) ==
  LET all == {df.rows[i].vehicle : i \in 1..Len(df.rows)}
      vids == {v \in all : Cardinality({u \in all : u < v}) < 10}
  IN  SelectSeq(df.rows, LAMBDA r : r.vehicle \in vids)

\* StandardScaler().fit(X), model.fit(Xs, y) on the pooled training rows.
\* The scaler keeps n and the column sums, so that n * x - sum is the exact
\* numerator of x - mean; the regressor keeps what it learnt of y.
FitStatic(model_name, train, use_features) ==
  LET n == Len(train)
      col(j) == [i \in 1..n |-> train[i][use_features[j]]]
  IN  IF n = 0 \/ \E j \in 1..Len(use_features) : RowHasNaN(col(j))
      THEN Fail("LibraryValueError")
      ELSE Ok([model |-> [kind |-> model_name, n |-> n,
                          ysum |-> SumSeq([i \in 1..n |-> train[i].Ca.v])],
               xsc |-> [n |-> n,
                        sum |-> [j \in 1..Len(use_features) |->
                                   SumSeq([i \in 1..n |-> col(j)[i].v])]]])

\* xsc.transform of one feature row
XscTransform(xsc, row) ==
  [j \in 1..Len(row) |-> IF IsNaN(row[j]) THEN NaN ELSE Num(xsc.n * row[j].v - xsc.sum[j])]

\* model.predict of one finite scaled row
ModelPredict(model, z) ==
  LET w == IF model.kind = "svr" THEN 2 ELSE 1
  IN  Num((model.ysum + w * RowSum(z)) % 11)

\* A training path that dumps the bundle before the regressor is fitted.
GetOrTrainStaticEarlyDump(model_name, df, use_features, file) ==
  IF ~IsNone(file)
  THEN [out |-> IF Get(file).complete THEN Ok(Get(file).bundle)
                ELSE Fail("ArtifactLoadError"),
        file |-> file, log |-> <<"load:" \o model_name \o "_static.pkl">>]
  ELSE IF \E j \in 1..Len(use_features) : use_features[j] \notin df.cols
  THEN [out |-> Fail("KeyError"), file |-> file, log |-> <<>>]
  ELSE LET b == FitStatic(model_name, DropNaCa(TrainRows(df)), use_features)
       IN  IF ~b.ok THEN [out |-> b, file |-> file, log |-> <<>>]
           ELSE [out |-> b,
                 file |-> Some([complete |-> TRUE,
                                bundle |-> [b.val EXCEPT !.model.ysum = 0]]),
                 log |-> <<"write:" \o model_name \o "_static.pkl">>]

\* A training path that does not look for the cache file: it fits and
\* dumps on every call.
GetOrTrainStaticRetrain(model_name, df, use_features, file) ==
  IF \E j \in 1..Len(use_features) : use_features[j] \notin df.cols
  THEN [out |-> Fail("KeyError"), file |-> file, log |-> <<>>]
  ELSE LET b == FitStatic(model_name, DropNaCa(TrainRows(df)), use_features)
       IN  IF ~b.ok THEN [out |-> b, file |-> file, log |-> <<>>]
           ELSE [out |-> b, file |-> Some([complete |-> TRUE, bundle |-> b.val]),
                 log |-> <<"write:" \o model_name \o "_static.pkl">>]

\* _get_or_train_static with the cache file as `file` (None: no file).  A
\* file that is only partly written cannot be unpickled.
GetOrTrainStatic(model_name, df, use_features, file) ==
  IF ~IsNone(file)
  THEN [out |-> IF Get(file).complete THEN Ok(Get(file).bundle)
                ELSE Fail("ArtifactLoadError"),
        file |-> file, log |-> <<"load:" \o model_name \o "_static.pkl">>]
  ELSE IF \E j \in 1..Len(use_features) : use_features[j] \notin df.cols
  THEN [out |-> Fail("KeyError"), file |-> file, log |-> <<>>]
  ELSE LET b == FitStatic(model_name, DropNaCa(TrainRows(df)), use_features)
       IN  IF ~b.ok THEN [out |-> b, file |-> file, log |-> <<>>]
           ELSE [out |-> b, file |-> Some([complete |-> TRUE, bundle |-> b.val]),
                 log |-> <<"write:" \o model_name \o "_static.pkl">>]

\* A regressor that also reads the previous month's feature row.
StaticPointLagged(bundle, X, i) ==
  ModelPredict(bundle.model,
               XscTransform(bundle.xsc, X[i + 1]) \o XscTransform(bundle.xsc, X[Max(i, 1)]))

\* yhat for the 0-based index i of the slice: the regressor applied to the
\* scaled feature row of that index.
StaticPoint(bundle, X, i) == ModelPredict(bundle.model, XscTransform(bundle.xsc, X[i + 1]))

\* The static forecast on a slice that has passed the history check.
\* idx = np.arange(n_known, n_known + H); sklearn rejects an empty Xf and
\* a row holding NaN.
StaticCurve(sl, n_known, max_h, bundle) ==
  LET T == Len(sl.c)
      H == Min(max_h, T - n_known)
      idx == {i \in 0..(T - 1) : n_known <= i /\ i < n_known + H}
  IN  IF idx = {} \/ \E i \in idx : RowHasNaN(sl.X[i + 1])
      THEN Fail("LibraryValueError")
      ELSE Ok([t |-> TAll(T), y_true |-> sl.c,
               y_pred |-> [i \in 1..T |->
                             IF (i - 1) \in idx THEN StaticPoint(bundle, sl.X, i - 1)
                             ELSE NaN]])

\* _predict_static_curve
PredictStaticCurve(df, vehicle, n_known, max_h, use_features, bundle) ==
  LET s == BuildVehicleSlice(df, vehicle, use_features)
  IN  IF ~s.ok THEN s
      ELSE IF Len(s.val.c) <= n_known THEN Fail("InsufficientHistory")
      ELSE StaticCurve(s.val, n_known, max_h, bundle)

\* ------------------------------------------------------------ run_forecast
ModelKeys == {"seq2seq_gpr", "gpr", "svr"}

\* A conversion that lets NaN through as a float.
ToListNaN(arr) == [i \in 1..Len(arr) |-> Some(IF IsNaN(arr[i]) THEN NaN ELSE arr[i].v)]

\* NaN -> None, anything else -> float(x)
ToList(arr) == [i \in 1..Len(arr) |-> IF IsNaN(arr[i]) THEN None ELSE Some(arr[i].v)]

\* A resolution that lets the argument 0 through.
ResolveNKnownNegative(n_known, n_known_default) ==
  IF IsNone(n_known) \/ Get(n_known) < 0 THEN n_known_default ELSE Get(n_known)

\* if n_known is None or n_known <= 0: n_known = n_known_default
ResolveNKnown(n_known, n_known_default) ==
  IF IsNone(n_known) \/ Get(n_known) <= 0 THEN n_known_default ELSE Get(n_known)

\* Python's s[i] for a 0-based i that may be negative.
PyIndex(s, i) == IF i < 0 THEN s[Len(s) + i + 1] ELSE s[i + 1]

Abs(x) == IF x < 0 THEN 0 - x ELSE x

\* mask = ~np.isnan(y_pred), as the ascending 1-based positions it keeps
MaskIdx(y_pred) ==
  SelectSeq([i \in 1..Len(y_pred) |-> i], LAMBDA i : ~IsNaN(y_pred[i]))

\* arr[mask]
Masked(arr, idx) == [j \in 1..Len(idx) |-> arr[idx[j]]]

\* sklearn's mean_absolute_error, as the fraction num / den
MeanAbsoluteError(a, b) ==
  [num |-> SumSeq([j \in 1..Len(a) |-> Abs(a[j].v - b[j].v)]), den |-> Len(a)]

\* _rmse: sqrt(mean((a - b) ** 2)), as the fraction under the root
Rmse(a, b) ==
  [num |-> SumSeq([j \in 1..Len(a) |-> (a[j].v - b[j].v) * (a[j].v - b[j].v)]),
   den |-> Len(a)]

\* Lines 301-304: the two metrics over the forecast window.
Metric(kind, y_true, y_pred, idx) ==
  IF idx = <<>> THEN None
  ELSE IF kind = "mae"
  THEN Some(MeanAbsoluteError(Masked(y_true, idx), Masked(y_pred, idx)))
  ELSE Some(Rmse(Masked(y_true, idx), Masked(y_pred, idx)))

\* The capacity of the first forecast month instead of the last known one.
CurrentCaNext(y_true, n_known) == PyIndex(y_true, n_known).v

\* current_ca = float(y_true[n_known - 1])
CurrentCa(y_true, n_known) == PyIndex(y_true, n_known - 1).v

\* last_pred = float(y_pred[mask][-1]) if mask.any() else float(y_true[-1])
LastPred(y_true, y_pred, idx) ==
  IF idx # <<>> THEN PyIndex(Masked(y_pred, idx), 0 - 1).v ELSE PyIndex(y_true, 0 - 1).v

\* The difference taken the other way round.
DegrAhRise(current_ca, last_pred) == last_pred - current_ca

\* degr_ah = current_ca - last_pred
DegrAh(current_ca, last_pred) == current_ca - last_pred

\* A guard that only excludes negative capacities.
DegrPctFromZero(degr_ah, current_ca) ==
  IF current_ca >= 0 THEN Some([num |-> degr_ah * 100, den |-> current_ca]) ELSE None

\* (degr_ah / current_ca * 100.0) if current_ca > 0 else None, the quotient
\* kept as the fraction num / den
DegrPct(degr_ah, current_ca) ==
  IF current_ca > 0 THEN Some([num |-> degr_ah * 100, den |-> current_ca]) ELSE None

\* Lines 321-336: the result dict, from the forecaster's arrays, the mask
\* and the two capacities.
ResultDict(vehicle, model, n_known, max_h, cur, idx, current_ca, last_pred) ==
  [vehicle_id |-> vehicle, model |-> model, n_known |-> n_known, horizon |-> max_h,
   t |-> cur.t, actual |-> ToList(cur.y_true), predicted |-> ToList(cur.y_pred),
   mae |-> Metric("mae", cur.y_true, cur.y_pred, idx),
   rmse |-> Metric("rmse", cur.y_true, cur.y_pred, idx),
   current_ca |-> current_ca, last_predicted_ca |-> last_pred,
   degradation_ah |-> DegrAh(current_ca, last_pred),
   degradation_pct |-> DegrPct(DegrAh(current_ca, last_pred), current_ca)]

\* Lines 301-336: the result built from what the forecaster returned.
BuildResult(vehicle, model, n_known, max_h, cur) ==
  ResultDict(vehicle, model, n_known, max_h, cur, MaskIdx(cur.y_pred),
             CurrentCa(cur.y_true, n_known),
             LastPred(cur.y_true, cur.y_pred, MaskIdx(cur.y_pred)))

\* What a run_forecast call leaves: the outcome (a result or the error
\* raised), the two lru_caches, the cache files, and the files the call
\* read, loaded or wrote, in order.
Outcome(out, fc, cc, st, log) ==
  [out |-> out, feat |-> fc, cfg |-> cc, static |-> st, log |-> log]

\* Lines 301-336: the forecaster returned cur (or raised).
Finish(vehicle, model, n_known, max_h, cur, fc, cc, st, log) ==
  Outcome(IF cur.ok THEN Ok(BuildResult(vehicle, model, n_known, max_h, cur.val)) ELSE cur,
          fc, cc, st, log)

\* A save path that is the gpr file whatever the model kind.
AfterStaticOneFile(env, vehicle, model, n_known, max_h, df, use_features, a, log, g) ==
  IF ~g.out.ok
  THEN Outcome(g.out, a.fcache, a.cache, [env.static EXCEPT !["gpr"] = g.file], log \o g.log)
  ELSE Finish(vehicle, model, n_known, max_h,
              PredictStaticCurve(df, vehicle, n_known, max_h, use_features, g.out.val),
              a.fcache, a.cache, [env.static EXCEPT !["gpr"] = g.file], log \o g.log)

\* Lines 294-297: the bundle g is trained or loaded (or that has raised).
AfterStatic(env, vehicle, model, n_known, max_h, df, use_features, a, log, g) ==
  IF ~g.out.ok
  THEN Outcome(g.out, a.fcache, a.cache, [env.static EXCEPT ![model] = g.file], log \o g.log)
  ELSE Finish(vehicle, model, n_known, max_h,
              PredictStaticCurve(df, vehicle, n_known, max_h, use_features, g.out.val),
              a.fcache, a.cache, [env.static EXCEPT ![model] = g.file], log \o g.log)

\* A dispatch whose last branch is the hybrid model instead of the error.
DispatchDefault(env, vehicle, model, n_known, max_h, df, use_features, a, log) ==
  IF model \in StaticKinds
  THEN AfterStatic(env, vehicle, model, n_known, max_h, df, use_features, a, log,
                   GetOrTrainStatic(model, df, use_features, env.static[model]))
  ELSE Finish(vehicle, model, n_known, max_h,
              ForecastSeq2SeqGpr(df, vehicle, n_known, max_h, use_features, env.artifacts),
              a.fcache, a.cache, env.static, log \o <<"load:artifacts">>)

\* Lines 285-299: the dispatch on the model key.
Dispatch(env, vehicle, model, n_known, max_h, df, use_features, a, log) ==
  IF model = "seq2seq_gpr"
  THEN Finish(vehicle, model, n_known, max_h,
              ForecastSeq2SeqGpr(df, vehicle, n_known, max_h, use_features, env.artifacts),
              a.fcache, a.cache, env.static, log \o <<"load:artifacts">>)
  ELSE IF model \in StaticKinds
  THEN AfterStatic(env, vehicle, model, n_known, max_h, df, use_features, a, log,
                   GetOrTrainStatic(model, df, use_features, env.static[model]))
  ELSE Outcome(Fail("UnknownModel"), a.fcache, a.cache, env.static, log)

\* Lines 280-283: the bundle a is loaded (or that has raised).
AfterCfg(env, vehicle, model, n_known_arg, max_h, f, a) ==
  IF ~a.out.ok THEN Outcome(a.out, a.fcache, a.cache, env.static, f.log \o a.log)
  ELSE Dispatch(env, vehicle, model,
                ResolveNKnown(n_known_arg, a.out.val.n_known_default), max_h,
                f.out.val, a.out.val.use_features, a, f.log \o a.log)

\* Line 279: the table f is loaded (or that has raised).
AfterFeat(env, vehicle, model, n_known_arg, max_h, f) ==
  IF ~f.out.ok THEN Outcome(f.out, f.cache, env.cfg, env.static, f.log)
  ELSE AfterCfg(env, vehicle, model, n_known_arg, max_h, f,
                LoadCfgAndArtifacts(env.cfg, f.cache, env.cfgfile, env.csv))

\* run_forecast, one caller at a time, in an environment env = [feat, cfg,
\* csv, cfgfile, artifacts, static].
RunForecast(env, vehicle, model, n_known_arg, max_h) ==
  AfterFeat(env, vehicle, model, n_known_arg, max_h, LoadFeatDf(env.feat, env.csv))

\* ------------------------------------------------------------------- state
VARIABLES
  csv,        \* the feature CSV: None when the file is absent, else its content
  cfgfile,    \* features_f1.json: None when absent, else its content
  artifacts,  \* whether the five fitted artifact files are there to load
  static,     \* the cache files svr_static.pkl and gpr_static.pkl
  feat,       \* the lru_cache of load_feat_df: None or the cached table
  cfg,        \* the lru_cache of _load_cfg_and_artifacts
  res,        \* None, or the run_forecast call that has just ended
  thr,        \* the request threads: what each is calling and where it stands
  count,      \* how often each loader body, training and file write has run
  operators,  \* operators.json: None when absent, else its content
  employee_ids, \* employee_ids.txt: None when absent, else the set of its lines
  areq,       \* the /auth request that has loaded the operators and not yet saved
  ares,       \* None, or the /auth call that has ended last
  resets,     \* the password of the last successful reset of operator StudyId
  vehicles,   \* the rows of table vehicles of fleet.db
  telemetry,  \* the rows of table telemetry_monthly of fleet.db
  fres        \* None, or the fleet registry call that has just ended

vars == <<csv, cfgfile, artifacts, static, feat, cfg, res, thr, count,
          operators, employee_ids, areq, ares, resets, vehicles, telemetry, fres>>

\* The variables of the forecaster, of the operator store and of the registry.
MlVars == <<csv, cfgfile, artifacts, static, feat, cfg, res, thr, count>>
AuthVars == <<operators, employee_ids, areq, ares, resets>>
FleetVars == <<vehicles, telemetry, fres>>

Vehicles == {1, 3}
ModelArgs == ModelKeys \cup {"lstm"}
NKnownArgs == {None} \cup {Some(n) : n \in (0 - 1)..MaxK}
HorizonArgs == (0 - MaxNegH)..MaxH

Cfgs == {[USE_FEATURES |-> <<"f1">>, N_KNOWN |-> k] : k \in {Some(1), Some(2)}}
CfgNoNKnown == [USE_FEATURES |-> <<"f1">>, N_KNOWN |-> None]

NoStatic == [k \in StaticKinds |-> None]

\* The cache files an earlier process left after training on FullFile.
OldStatic ==
  [k \in StaticKinds |->
     Some([complete |-> TRUE,
           bundle |-> FitStatic(k, DropNaCa(TrainRows(ReadFeatDf(FullFile))), <<"f1">>).val])]

\* A deployment: the files the process finds.  Either everything is in
\* place and the table is any of OkFiles, or one thing is wrong.
Deployments ==
  { d \in { [csv |-> Some(f), cfgfile |-> Some(c), artifacts |-> TRUE,
               static |-> NoStatic] : f \in OkFiles, c \in Cfgs } :
      \* the files with a gap go with the default of 1 only: a lookback of 2
      \* reaches them as the argument
      Get(d.cfgfile).N_KNOWN = Some(1) \/ Get(d.csv) \in GaplessFiles }
  \cup
  { [csv |-> Some(FullFile), cfgfile |-> Some(CfgNoNKnown), artifacts |-> TRUE,
     static |-> NoStatic],
    [csv |-> Some(LowFile), cfgfile |-> Some(CfgNoNKnown), artifacts |-> TRUE,
     static |-> NoStatic],
    [csv |-> None, cfgfile |-> Some(CfgNoNKnown), artifacts |-> TRUE, static |-> NoStatic],
    [csv |-> Some(FullFile), cfgfile |-> None, artifacts |-> TRUE, static |-> NoStatic],
    [csv |-> Some(Without(FullFile, "Tmax_ave")), cfgfile |-> None, artifacts |-> TRUE,
     static |-> NoStatic],
    [csv |-> Some(FullFile), cfgfile |-> Some(CfgNoNKnown), artifacts |-> FALSE,
     static |-> NoStatic] }
  \cup
  { [csv |-> Some(Without(FullFile, col)), cfgfile |-> Some(c), artifacts |-> TRUE,
     static |-> st] :
      col \in {"f1", "Tmax_ave"}, c \in Cfgs, st \in {NoStatic, OldStatic} }

Threads == 1..NThreads

\* ----------------------------------------------------------- operator store
\* services/auth.py.  A string a client sends is [core, case, pad]: its
\* characters, whether its letters are typed in upper ("u") or lower ("l")
\* case, and whether blanks surround it.
Text(core, case, pad) == [core |-> core, case |-> case, pad |-> pad]
EmptyText == Text("", "l", FALSE)
Strip(s) == [s EXCEPT !.pad = FALSE]
Lower(s) == [s EXCEPT !.case = "l"]
Upper(s) == IF s.core = "" THEN s ELSE [s EXCEPT !.case = "u"]

\* _load_operators: no file, or a file json.load cannot parse, is an empty list.
LoadOperators(file) ==
  IF IsNone(file) THEN <<>>
  ELSE IF ~Get(file).complete THEN <<>>
  ELSE Get(file).ops

\* _hash_password: SHA-256, taken to be free of collisions.
HashPassword(password) == <<"sha256", password>>

\* The ids _generate_operator_id draws from; its loop ends with any one of
\* them that is not in existing.
IdNames == <<"aa000", "bc123", "zz999", "qk407">>
IdSpace == {Text(IdNames[i], "u", FALSE) : i \in 1..MaxOperators}
GenerateOperatorId(existing) == IdSpace \ existing

\* The operator whose resets and logins are followed.
StudyId == Text(IdNames[1], "u", FALSE)

\* The first of the positions S of a list, as a for loop meets them.
FirstOf(S) == CHOOSE i \in S : \A j \in S : i <= j

\* register_operator with the duplicate check comparing the email as typed.
RegisterOperatorEmailAsTyped(file, valid_ids, email_arg, password, employee_arg, operator_id) ==
  LET email == Lower(Strip(email_arg))
      employee_id == Strip(employee_arg)
      ops == LoadOperators(file)
      op == [operator_id |-> operator_id, email |-> email,
             employee_id |-> employee_id, password_hash |-> HashPassword(password)]
  IN  IF email = EmptyText \/ password = "" \/ employee_id = EmptyText
      THEN Fail("ValueError")
      ELSE IF ~IsNone(valid_ids) /\ employee_id \notin Get(valid_ids)
      THEN Fail("EmployeeNotFound")
      ELSE IF \E i \in 1..Len(ops) :
                ops[i].employee_id = employee_id \/ ops[i].email = Strip(email_arg)
      THEN Fail("OperatorAlreadyExists")
      ELSE Ok([ops |-> Append(ops, op), op |-> op])

\* register_operator up to the call of _save_operators, with operator_id the
\* id the generator returned: the list to save and the Operator to return.
RegisterOperator(file, valid_ids, email_arg, password, employee_arg, operator_id) ==
  LET email == Lower(Strip(email_arg))
      employee_id == Strip(employee_arg)
      ops == LoadOperators(file)
      op == [operator_id |-> operator_id, email |-> email,
             employee_id |-> employee_id, password_hash |-> HashPassword(password)]
  IN  IF email = EmptyText \/ password = "" \/ employee_id = EmptyText
      THEN Fail("ValueError")
      ELSE IF ~IsNone(valid_ids) /\ employee_id \notin Get(valid_ids)
      THEN Fail("EmployeeNotFound")
      ELSE IF \E i \in 1..Len(ops) :
                ops[i].employee_id = employee_id \/ ops[i].email = email
      THEN Fail("OperatorAlreadyExists")
      ELSE Ok([ops |-> Append(ops, op), op |-> op])

\* login_operator
LoginOperator(file, id_arg, password) ==
  LET operator_id == Upper(Strip(id_arg))
      ops == LoadOperators(file)
      hits == {i \in 1..Len(ops) : /\ ops[i].operator_id = operator_id
                                   /\ ops[i].password_hash = HashPassword(password)}
  IN  IF operator_id = EmptyText \/ password = "" THEN Fail("ValueError")
      ELSE IF hits = {} THEN Fail("ValueError")
      ELSE Ok([ops[FirstOf(hits)] EXCEPT !.operator_id = operator_id,
                                                !.password_hash = HashPassword(password)])

\* find_operator_by_email
FindOperatorByEmail(file, email_arg) ==
  LET email == Lower(Strip(email_arg))
      ops == LoadOperators(file)
      hits == {i \in 1..Len(ops) : ops[i].email = email}
  IN  IF email = EmptyText THEN Fail("ValueError")
      ELSE IF hits = {} THEN Fail("OperatorNotFound")
      ELSE Ok(ops[FirstOf(hits)])

\* reset_operator_password up to the call of _save_operators.
ResetOperatorPassword(file, id_arg, new_password) ==
  LET operator_id == Upper(Strip(id_arg))
      ops == LoadOperators(file)
      hits == {i \in 1..Len(ops) : ops[i].operator_id = operator_id}
      target == FirstOf(hits)
      saved == [ops EXCEPT ![target].password_hash = HashPassword(new_password)]
  IN  IF operator_id = EmptyText \/ new_password = "" THEN Fail("ValueError")
      ELSE IF hits = {} THEN Fail("OperatorNotFound")
      ELSE Ok([ops |-> saved, op |-> saved[target]])

\* POST /auth/forgot-password: the response, and the mail handed to the
\* background tasks (None when no mail is sent).
SameMessage == "If an account exists for this email, a reset link has been sent."
\* forgot_password answering an unknown email with what find_operator_by_email
\* raised.
ForgotPasswordTelling(file, email_arg) ==
  LET found == FindOperatorByEmail(file, email_arg)
  IN  IF found.ok
      THEN [status |-> 200, message |-> SameMessage, mail |-> Some(found.val.email)]
      ELSE IF found.err = "OperatorNotFound"
      THEN [status |-> 400, message |-> "No operator registered with email.", mail |-> None]
      ELSE [status |-> 400, message |-> "Email is required.", mail |-> None]

ForgotPassword(file, email_arg) ==
  LET found == FindOperatorByEmail(file, email_arg)
  IN  IF found.ok
      THEN [status |-> 200, message |-> SameMessage, mail |-> Some(found.val.email)]
      ELSE IF found.err = "OperatorNotFound"
      THEN [status |-> 200, message |-> SameMessage, mail |-> None]
      ELSE [status |-> 400, message |-> "Email is required.", mail |-> None]

\* What the clients send.  A registration form is <<email, password, employee_id>>.
Ann == Text("ann@x", "l", FALSE)
Bob == Text("bob@x", "l", FALSE)
E1 == Text("e1", "u", FALSE)
E2 == Text("e2", "u", FALSE)
RegisterForms ==
  { <<Ann, "p", E1>>,
    <<Text("ann@x", "u", TRUE), "p", E2>>,
    <<Bob, "p", Text("e1", "u", TRUE)>>,
    <<Text("", "l", TRUE), "p", E1>>,
    <<Bob, "", E2>>,
    <<Ann, "p", EmptyText>> }
EmailArgs == {Ann, Text("ann@x", "u", TRUE), Bob, Text("", "l", TRUE)}
Passwords == {"", "p", "q"}
OperatorIdArgs == IdSpace \cup {Text(IdNames[1], "l", TRUE), EmptyText}
EmployeeFiles == {None, Some({E1})}

\* No request stands between its load and its save.
AuthIdle == [pc |-> "idle", op |-> "none", arg |-> <<>>, ops |-> <<>>, ret |-> Fail("none")]

\* No /auth request is under way and operators.json has not been created.
AuthAtRest ==
  /\ operators = None
  /\ employee_ids = None
  /\ areq = AuthIdle
  /\ ares = None
  /\ resets = None

\* fleet.db holds no rows and no registry call is under way.
FleetAtRest ==
  /\ vehicles = {}
  /\ telemetry = {}
  /\ fres = None
Idle == [op |-> "none", pc |-> "idle", nested |-> FALSE, warm |-> FALSE, df |-> None,
         bundle |-> None, ret |-> Fail("none")]
Counted == {"feat", "cfg", "train:svr", "train:gpr", "write:svr", "write:gpr", "artifacts"}

Init ==
  /\ thr = [t \in Threads |-> Idle]
  /\ count = [c \in Counted |-> 0]
  /\ \E d \in Deployments :
       /\ csv = d.csv
       /\ cfgfile = d.cfgfile
       /\ artifacts = d.artifacts
       /\ static = d.static
  /\ feat = None
  /\ cfg = None
  /\ res = None
  /\ AuthAtRest
  /\ FleetAtRest

Env == [feat |-> feat, cfg |-> cfg, csv |-> csv, cfgfile |-> cfgfile,
        artifacts |-> artifacts, static |-> static]

\* The state a finished call r leaves behind.
Ended(vehicle, model, n_known, max_h, r) ==
  /\ res' = Some([vehicle |-> vehicle, model |-> model, n_known |-> n_known,
                  max_h |-> max_h, out |-> r.out, log |-> r.log])
  /\ feat' = r.feat
  /\ cfg' = r.cfg
  /\ static' = r.static

\* One run_forecast call (the /ml/forecast handler), from entry to the
\* result or the exception.
Forecast(vehicle, model, n_known, max_h) ==
  /\ res = None
  /\ Ended(vehicle, model, n_known, max_h, RunForecast(Env, vehicle, model, n_known, max_h))
  /\ UNCHANGED <<csv, cfgfile, artifacts, thr, count, AuthVars, FleetVars>>

\* The handler hands the result (or the HTTP error) to the client.
Respond ==
  /\ res # None
  /\ res' = None
  /\ UNCHANGED <<csv, cfgfile, artifacts, static, feat, cfg, thr, count, AuthVars, FleetVars>>

\* The process is restarted: both lru_caches start empty, the files stay.
Restart ==
  /\ res = None
  /\ feat # None \/ cfg # None
  /\ feat' = None
  /\ cfg' = None
  /\ UNCHANGED <<csv, cfgfile, artifacts, static, res, thr, count, AuthVars, FleetVars>>

Next ==
  \/ \E v \in Vehicles, m \in ModelArgs, k \in NKnownArgs, h \in HorizonArgs :
       Forecast(v, m, k, h)
  \/ Respond
  \/ Restart

Spec == Init /\ [][Next]_vars

\* ------------------------------------------------------- concurrent callers
\* /ml/forecast is a plain def endpoint, so requests run on threadpool
\* threads.  functools.lru_cache looks the key up, calls the function with
\* no lock held on a miss, and stores the value afterwards unless another
\* thread has stored one in between; _get_or_train_static holds no lock
\* either, and joblib.dump creates the file before its content is complete.
\*
\* A thread calls load_feat_df ("feat"), _load_cfg_and_artifacts ("cfg"), or
\* runs run_forecast with a static model as far as _get_or_train_static
\* ("svr", "gpr").
Ops == {"feat", "cfg"} \cup StaticKinds

NewFile == [cols |-> AllCols, rows |-> RawRows2 \o RawRows1(1, 0, 0, "asc")]
ThreadCfg == [USE_FEATURES |-> <<"f1">>, N_KNOWN |-> Some(1)]

InitConc ==
  /\ csv = Some(FullFile)
  /\ cfgfile = Some(ThreadCfg)
  /\ artifacts = TRUE
  /\ static = NoStatic
  /\ feat = None
  /\ cfg = None
  /\ res = None
  /\ thr = [t \in Threads |-> Idle]
  /\ count = [c \in Counted |-> 0]
  /\ AuthAtRest
  /\ FleetAtRest

Step(t, next) == thr' = [thr EXCEPT ![t] = next]
Bump(c) == count' = [count EXCEPT ![c] = @ + 1]
FilesSame == UNCHANGED <<csv, cfgfile, artifacts, res, AuthVars, FleetVars>>

\* Where a thread goes once load_feat_df has given it the table.
AfterFeatPc(th) ==
  IF th.nested THEN "cfg_store" ELSE IF th.op = "feat" THEN "done" ELSE "cfg_lookup"

\* Where a thread goes once _load_cfg_and_artifacts has returned.
AfterCfgPc(th) == IF th.op = "cfg" THEN "done" ELSE "static_exists"

\* A request thread enters its call; warm notes whether a table was cached
\* by then.
Begin(t, op) ==
  /\ thr[t].pc = "idle"
  /\ Step(t, [Idle EXCEPT !.op = op, !.warm = (feat # None),
                          !.pc = IF op = "cfg" THEN "cfg_lookup" ELSE "feat_lookup"])
  /\ FilesSame /\ UNCHANGED <<static, feat, cfg, count>>

\* lru_cache wrapper of load_feat_df: the lookup.
FeatLookup(t) ==
  /\ thr[t].pc = "feat_lookup"
  /\ IF feat # None
     THEN Step(t, [thr[t] EXCEPT !.df = feat, !.ret = Ok(Get(feat)),
                                 !.pc = AfterFeatPc(thr[t])])
     ELSE Step(t, [thr[t] EXCEPT !.pc = "feat_body"])
  /\ FilesSame /\ UNCHANGED <<static, feat, cfg, count>>

\* The body of load_feat_df: the file is read and parsed.
FeatBody(t) ==
  /\ thr[t].pc = "feat_body"
  /\ IF csv = None
     THEN /\ Step(t, [thr[t] EXCEPT !.ret = Fail("NotFound"), !.pc = "done"])
          /\ UNCHANGED count
     ELSE /\ Step(t, [thr[t] EXCEPT !.df = Some(ReadFeatDf(Get(csv))), !.pc = "feat_store"])
          /\ Bump("feat")
  /\ FilesSame /\ UNCHANGED <<static, feat, cfg>>

\* lru_cache wrapper of load_feat_df: the value is stored unless the key is
\* in the cache by now; the caller gets the value its own call computed.
FeatStore(t) ==
  /\ thr[t].pc = "feat_store"
  /\ feat' = IF feat = None THEN thr[t].df ELSE feat
  /\ Step(t, [thr[t] EXCEPT !.ret = Ok(Get(thr[t].df)), !.pc = AfterFeatPc(thr[t])])
  /\ FilesSame /\ UNCHANGED <<static, cfg, count>>

\* lru_cache wrapper of _load_cfg_and_artifacts: the lookup.
CfgLookup(t) ==
  /\ thr[t].pc = "cfg_lookup"
  /\ IF cfg # None
     THEN Step(t, [thr[t] EXCEPT !.ret = Ok(Get(cfg)), !.pc = AfterCfgPc(thr[t])])
     ELSE Step(t, [thr[t] EXCEPT !.pc = "cfg_body"])
  /\ FilesSame /\ UNCHANGED <<static, feat, cfg, count>>

\* The body of _load_cfg_and_artifacts up to its call of load_feat_df.
CfgBodyRead(t) ==
  /\ thr[t].pc = "cfg_body"
  /\ IF cfgfile = None
     THEN /\ Step(t, [thr[t] EXCEPT !.ret = Fail("NotFound"), !.pc = "done"])
          /\ UNCHANGED count
     ELSE /\ Step(t, [thr[t] EXCEPT !.nested = TRUE, !.pc = "feat_lookup"])
          /\ Bump("cfg")
  /\ FilesSame /\ UNCHANGED <<static, feat, cfg>>

\* The schema check, the return, and the wrapper's store.
CfgStore(t) ==
  /\ thr[t].pc = "cfg_store"
  /\ LET b == CfgBody(Get(cfgfile), Get(thr[t].df))
     IN  /\ cfg' = IF b.ok /\ cfg = None THEN Some(b.val) ELSE cfg
         /\ Step(t, [thr[t] EXCEPT !.nested = FALSE, !.ret = b,
                                   !.pc = IF b.ok THEN AfterCfgPc(thr[t]) ELSE "done"])
  /\ FilesSame /\ UNCHANGED <<static, feat, count>>

\* _get_or_train_static: if save_path.exists()
StaticExists(t) ==
  /\ thr[t].pc = "static_exists"
  /\ Step(t, [thr[t] EXCEPT !.pc = IF static[thr[t].op] # None THEN "static_load"
                                   ELSE "static_train"])
  /\ FilesSame /\ UNCHANGED <<static, feat, cfg, count>>

\* return joblib.load(save_path)
StaticLoad(t) ==
  /\ thr[t].pc = "static_load"
  /\ Step(t, [thr[t] EXCEPT !.pc = "done",
                            !.ret = IF Get(static[thr[t].op]).complete
                                    THEN Ok(Get(static[thr[t].op]).bundle)
                                    ELSE Fail("ArtifactLoadError")])
  /\ FilesSame /\ UNCHANGED <<static, feat, cfg, count>>

\* Lines 208-225: the regressor is trained.
StaticTrain(t) ==
  /\ thr[t].pc = "static_train"
  /\ LET b == FitStatic(thr[t].op, DropNaCa(TrainRows(Get(thr[t].df))), <<"f1">>)
     IN  Step(t, [thr[t] EXCEPT !.bundle = Some(b.val), !.pc = "static_write"])
  /\ Bump("train:" \o thr[t].op)
  /\ FilesSame /\ UNCHANGED <<static, feat, cfg>>

\* joblib.dump opens save_path: the file exists, its content is not there yet.
StaticWriteBegin(t) ==
  /\ thr[t].pc = "static_write"
  /\ static' = [static EXCEPT ![thr[t].op] =
                  Some([complete |-> FALSE, bundle |-> Get(thr[t].bundle)])]
  /\ Step(t, [thr[t] EXCEPT !.pc = "static_writing"])
  /\ Bump("write:" \o thr[t].op)
  /\ FilesSame /\ UNCHANGED <<feat, cfg>>

\* joblib.dump completes, and the bundle is returned.
StaticWriteEnd(t) ==
  /\ thr[t].pc = "static_writing"
  /\ static' = [static EXCEPT ![thr[t].op] =
                  Some([complete |-> TRUE, bundle |-> Get(thr[t].bundle)])]
  /\ Step(t, [thr[t] EXCEPT !.pc = "done", !.ret = Ok(Get(thr[t].bundle))])
  /\ FilesSame /\ UNCHANGED <<feat, cfg, count>>

\* The request is answered; the thread is free for the next one.
ThreadReturn(t) ==
  /\ thr[t].pc = "done"
  /\ Step(t, Idle)
  /\ FilesSame /\ UNCHANGED <<static, feat, cfg, count>>

\* The feature CSV is replaced on disk while the process runs.
FileChanged ==
  /\ csv = Some(FullFile)
  /\ csv' = Some(NewFile)
  /\ UNCHANGED <<cfgfile, artifacts, static, feat, cfg, res, thr, count, AuthVars, FleetVars>>

NextConc ==
  \/ \E t \in Threads, op \in Ops : Begin(t, op)
  \/ \E t \in Threads :
       \/ FeatLookup(t) \/ FeatBody(t) \/ FeatStore(t)
       \/ CfgLookup(t) \/ CfgBodyRead(t) \/ CfgStore(t)
       \/ StaticExists(t) \/ StaticLoad(t) \/ StaticTrain(t)
       \/ StaticWriteBegin(t) \/ StaticWriteEnd(t)
       \/ ThreadReturn(t)
  \/ FileChanged

SpecConc == InitConc /\ [][NextConc]_vars

\* ------------------------------------------------- artifact loads counted
\* The forecasts of one deployment, with the passes through the five load
\* calls of _forecast_seq2seq_gpr (lines 150-154) counted per process.
Occurrences(log, entry) == Cardinality({i \in 1..Len(log) : log[i] = entry})

ForecastCounted(vehicle, model, n_known, max_h) ==
  /\ res = None
  /\ count["artifacts"] < MaxLoads
  /\ Ended(vehicle, model, n_known, max_h, RunForecast(Env, vehicle, model, n_known, max_h))
  /\ count' = [count EXCEPT !["artifacts"] =
                 @ + Occurrences(RunForecast(Env, vehicle, model, n_known, max_h).log,
                                 "load:artifacts")]
  /\ UNCHANGED <<csv, cfgfile, artifacts, thr, AuthVars, FleetVars>>

\* A new process: empty lru_caches, nothing loaded yet.
ProcessRestart ==
  /\ res = None
  /\ feat # None \/ cfg # None
  /\ feat' = None
  /\ cfg' = None
  /\ count' = [c \in Counted |-> 0]
  /\ UNCHANGED <<csv, cfgfile, artifacts, static, res, thr, AuthVars, FleetVars>>

NextLoads ==
  \/ \E v \in Vehicles, m \in ModelArgs, k \in NKnownArgs, h \in HorizonArgs :
       ForecastCounted(v, m, k, h)
  \/ Respond
  \/ ProcessRestart

SpecLoads == InitConc /\ [][NextLoads]_vars

\* ----------------------------------------------------------- /auth requests
\* The /auth endpoints are plain def endpoints too, and services/auth.py
\* takes no lock: a request loads operators.json, works on its own copy of
\* the list, and _save_operators rewrites the whole file from that copy,
\* open("w") emptying the file before json.dump fills it.
MlAtRest ==
  /\ csv = None
  /\ cfgfile = None
  /\ artifacts = FALSE
  /\ static = NoStatic
  /\ feat = None
  /\ cfg = None
  /\ res = None
  /\ thr = [t \in Threads |-> Idle]
  /\ count = [c \in Counted |-> 0]

InitAuth ==
  /\ MlAtRest
  /\ FleetAtRest
  /\ operators = None
  /\ employee_ids \in EmployeeFiles
  /\ areq = AuthIdle
  /\ ares = None
  /\ resets = None

RestSame == UNCHANGED <<MlVars, FleetVars, employee_ids>>
ExistingIds(file) ==
  {LoadOperators(file)[i].operator_id : i \in 1..Len(LoadOperators(file))}

\* The reset operator StudyId was last given, as a login for it finds it.
LastReset(id_arg) ==
  IF Upper(Strip(id_arg)) = StudyId THEN resets ELSE None

\* The call that has ended: what was called with what, and what came back.
Answered(op, arg, ret, since) ==
  ares' = Some([op |-> op, arg |-> arg, ret |-> ret, since |-> since])

\* _save_operators, from open("w") to the end of json.dump.
Saved(ops) == operators' = Some([complete |-> TRUE, ops |-> ops])

\* A successful reset of StudyId to new_password is noted.
Noted(op, new_password) ==
  resets' = IF op.operator_id = StudyId THEN Some(new_password) ELSE resets

\* register_operator, from entry to the return or the exception, with no
\* other request in between.
RegisterCall(form) ==
  /\ ares = None
  /\ \E operator_id \in IdSpace :
       LET r == RegisterOperator(operators, employee_ids, form[1], form[2], form[3],
                                 operator_id)
       IN  IF r.ok
           THEN /\ operator_id \in GenerateOperatorId(ExistingIds(operators))
                /\ Saved(r.val.ops)
                /\ Answered("register", form, Ok(r.val.op), None)
           ELSE /\ Answered("register", form, r, None)
                /\ UNCHANGED operators
  /\ UNCHANGED <<areq, resets>>
  /\ RestSame

\* reset_operator_password, from entry to the return or the exception.
ResetCall(operator_id, new_password) ==
  /\ ares = None
  /\ LET r == ResetOperatorPassword(operators, operator_id, new_password)
     IN  IF r.ok
         THEN /\ Saved(r.val.ops)
              /\ Noted(r.val.op, new_password)
              /\ Answered("reset", <<operator_id, new_password>>, Ok(r.val.op), None)
         ELSE /\ Answered("reset", <<operator_id, new_password>>, r, None)
              /\ UNCHANGED <<operators, resets>>
  /\ UNCHANGED areq
  /\ RestSame

\* login_operator
LoginCall(operator_id, password) ==
  /\ ares = None
  /\ Answered("login", <<operator_id, password>>,
              LoginOperator(operators, operator_id, password), LastReset(operator_id))
  /\ UNCHANGED <<operators, areq, resets>>
  /\ RestSame

\* POST /auth/forgot-password
ForgotCall(email) ==
  /\ ares = None
  /\ Answered("forgot", <<email>>, Ok(ForgotPassword(operators, email)), None)
  /\ UNCHANGED <<operators, areq, resets>>
  /\ RestSame

\* A request on another threadpool thread overlaps the calls above.  Two
\* loads commute, so one overlapped request at a time stands for any two
\* clients.  register_operator, lines 115-149: the list is loaded and the
\* new record appended to the thread's copy.
RegisterLoad(form) ==
  /\ ares = None
  /\ areq.pc = "idle"
  /\ \E operator_id \in GenerateOperatorId(ExistingIds(operators)) :
       LET r == RegisterOperator(operators, employee_ids, form[1], form[2], form[3],
                                 operator_id)
       IN  /\ r.ok
           /\ areq' = [pc |-> "save", op |-> "register", arg |-> form,
                       ops |-> r.val.ops, ret |-> Ok(r.val.op)]
  /\ UNCHANGED <<operators, ares, resets>>
  /\ RestSame

\* reset_operator_password, lines 211-226, on the overlapped thread.
ResetLoad(operator_id, new_password) ==
  /\ ares = None
  /\ areq.pc = "idle"
  /\ LET r == ResetOperatorPassword(operators, operator_id, new_password)
     IN  /\ r.ok
         /\ areq' = [pc |-> "save", op |-> "reset", arg |-> <<operator_id, new_password>>,
                     ops |-> r.val.ops, ret |-> Ok(r.val.op)]
  /\ UNCHANGED <<operators, ares, resets>>
  /\ RestSame

\* _save_operators on the overlapped thread: open("w") leaves an empty file.
SaveBegin ==
  /\ ares = None
  /\ areq.pc = "save"
  /\ operators' = Some([complete |-> FALSE, ops |-> areq.ops])
  /\ areq' = [areq EXCEPT !.pc = "saving"]
  /\ UNCHANGED <<ares, resets>>
  /\ RestSame

\* _save_operators on the overlapped thread: json.dump has written the
\* thread's list; the call returns.
SaveEnd ==
  /\ ares = None
  /\ areq.pc = "saving"
  /\ Saved(areq.ops)
  /\ areq' = AuthIdle
  /\ Answered(areq.op, areq.arg, areq.ret, None)
  /\ IF areq.op = "reset" THEN Noted(areq.ret.val, areq.arg[2]) ELSE UNCHANGED resets
  /\ RestSame

\* The answer goes out to the client.
AuthRespond ==
  /\ ares # None
  /\ ares' = None
  /\ UNCHANGED <<operators, areq, resets>>
  /\ RestSame

NextAuth ==
  \/ \E form \in RegisterForms : RegisterCall(form)
  \/ \E o \in OperatorIdArgs, p \in Passwords : ResetCall(o, p)
  \/ \E o \in OperatorIdArgs, p \in Passwords : LoginCall(o, p)
  \/ \E e \in EmailArgs : ForgotCall(e)
  \/ \E form \in RegisterForms : RegisterLoad(form)
  \/ \E o \in OperatorIdArgs, p \in Passwords : ResetLoad(o, p)
  \/ SaveBegin
  \/ SaveEnd
  \/ AuthRespond

SpecAuth == InitAuth /\ [][NextAuth]_vars

\* ================================================================== claims
Call == Get(res)
Returned == res # None /\ Call.out.ok
Raised == res # None /\ ~Call.out.ok
Result == Call.out.val

\* The rows of the cached table that belong to vehicle v and hold a capacity.
KnownRows(v) ==
  {i \in 1..Len(Get(feat).rows) :
     Get(feat).rows[i].vehicle = v /\ ~IsNaN(Get(feat).rows[i].Ca)}

\* The slice of the vehicle of the call that has just ended.
CallSlice == BuildVehicleSlice(Get(feat), Call.vehicle, Get(cfg).use_features).val

NonNull(list) == {i \in 0..(Len(list) - 1) : list[i + 1] # None}

\* The forecast window [n_known, n_known + H) of a returned result.
Window(r) ==
  {i \in 0..(Len(r.actual) - 1) :
     r.n_known <= i /\ i < r.n_known + Min(r.horizon, Len(r.actual) - r.n_known)}

\* C1: in every returned result predicted[i] is non-null exactly for the
\* indices n_known <= i < n_known + H, H = min(horizon, len(actual) - n_known).
C1_PredictedExactlyInWindow == Returned => NonNull(Result.predicted) = Window(Result)

\* No feature cell of the slice of the call is missing.
CompleteRows == \A i \in 1..Len(CallSlice.X) : ~RowHasNaN(CallSlice.X[i])

\* Beside C1: the window is exact whenever the vehicle's feature rows are
\* complete, for each of the three model keys.
WindowExactOnCompleteRows ==
  (Returned /\ CompleteRows) => NonNull(Result.predicted) = Window(Result)

\* C2: in every returned result t, actual and predicted have the same
\* length, the number of the vehicle's rows that hold a capacity, and t is
\* 1, 2, ..., T.
C2_AlignedLengths ==
  Returned =>
    /\ Len(Result.predicted) = Len(Result.actual)
    /\ Len(Result.actual) = Len(Result.t)
    /\ Len(Result.t) = Cardinality(KnownRows(Call.vehicle))
    /\ \A i \in 1..Len(Result.t) : Result.t[i] = i

\* A call returned three aligned entries for a vehicle one of whose rows in
\* the file holds no capacity, or two entries for one with such a row.
C2_Witness ==
  /\ Returned
  /\ Len(Result.t) = 2
  /\ \E i \in 1..Len(Get(feat).rows) :
       Get(feat).rows[i].vehicle = Call.vehicle /\ IsNaN(Get(feat).rows[i].Ca)

\* Capacity vectors of the same length as c that agree with c below n_known.
SameKnown(c, n_known) ==
  {[i \in 1..Len(c) |-> IF i <= n_known THEN c[i] ELSE later[i]] :
     later \in [1..Len(c) -> {Num(1), Num(6)}]}

\* C3: a seq2seq_gpr forecast depends on the measured capacities only
\* through the first n_known of them: every capacity vector of the same
\* length that agrees on the indices below n_known gives the same predicted
\* series.
C3_OnlyKnownCapacities ==
  (Returned /\ Call.model = "seq2seq_gpr") =>
    \A c2 \in SameKnown(CallSlice.c, Result.n_known) :
      LET other == Seq2SeqCurve([CallSlice EXCEPT !.c = c2], Result.n_known, Call.max_h)
      IN  other.ok /\ ToList(other.val.y_pred) = Result.predicted

\* A seq2seq_gpr call predicted two months from one known month: the second
\* window lies wholly beyond the known region.
C3_Witness ==
  /\ Returned
  /\ Call.model = "seq2seq_gpr"
  /\ Result.n_known = 1
  /\ NonNull(Result.predicted) = {1, 2}

\* Feature matrices that differ from X in at most the row of 0-based index j.
OtherRow(X, j) == {[X EXCEPT ![j + 1] = <<Num(v)>>] : v \in 0..4}

\* C4: with the trained bundle fixed, the gpr / svr prediction for an index
\* of the forecast window depends only on that index's feature row: another
\* capacity vector and another feature row at any other index leave it
\* unchanged.
C4_PointwiseStatic ==
  (Returned /\ Call.model \in StaticKinds) =>
    \A i \in Window(Result), j \in 0..(Len(Result.actual) - 1) :
      j # i =>
        \A X2 \in OtherRow(CallSlice.X, j), c2 \in SameKnown(CallSlice.c, 0) :
          LET other == StaticCurve([CallSlice EXCEPT !.X = X2, !.c = c2], Result.n_known,
                                   Call.max_h, Get(static[Call.model]).bundle)
          IN  other.ok /\ ToList(other.val.y_pred)[i + 1] = Result.predicted[i + 1]

\* A gpr or svr call predicted two months.
C4_Witness ==
  /\ Returned
  /\ Call.model \in StaticKinds
  /\ Cardinality(NonNull(Result.predicted)) = 2

\* The lookback the call that has just ended resolved, once the bundle is
\* loaded.
ResolvedNKnown == ResolveNKnown(Call.n_known, Get(cfg).n_known_default)

\* The call got as far as the history check could matter: the table and the
\* bundle are loaded and the model key is one of the three.
HistoryShort ==
  /\ res # None
  /\ feat # None
  /\ cfg # None
  /\ Call.model \in ModelKeys
  /\ ResolvedNKnown >= Cardinality(KnownRows(Call.vehicle))

\* C5 as stated: whenever the resolved n_known is at least the number of the
\* vehicle's rows that hold a capacity, the call fails with
\* InsufficientHistory and returns nothing.
C5_ShortHistoryAlwaysInsufficient ==
  HistoryShort => ~Call.out.ok /\ Call.out.err = "InsufficientHistory"

\* What the forecaster of the call needs before it reaches the history
\* check: the five artifacts (seq2seq_gpr), or a bundle that was loaded or
\* trained and is now on disk (gpr, svr); and every use_features column.
ForecasterReady ==
  /\ \A j \in 1..Len(Get(cfg).use_features) : Get(cfg).use_features[j] \in Get(feat).cols
  /\ Call.model = "seq2seq_gpr" => artifacts
  /\ Call.model \in StaticKinds => static[Call.model] # None

\* C5 amended: for a vehicle with at least one row that holds a capacity,
\* and a forecaster whose columns, artifacts or bundle are available, a
\* resolved n_known at least the number of such rows makes the call fail
\* with InsufficientHistory, with no result.
C5_ShortHistoryInsufficient ==
  (HistoryShort /\ ForecasterReady /\ KnownRows(Call.vehicle) # {}) =>
    /\ ~Call.out.ok
    /\ Call.out.err = "InsufficientHistory"
    /\ Call.out.val = <<>>

\* A seq2seq_gpr call for a vehicle with exactly n_known = 2 usable rows
\* ended in InsufficientHistory.
C5_Witness ==
  /\ HistoryShort
  /\ ForecasterReady
  /\ Call.model = "seq2seq_gpr"
  /\ ResolvedNKnown = 2
  /\ Cardinality(KnownRows(Call.vehicle)) = 2
  /\ Call.out.err = "InsufficientHistory"

LogSet == {Call.log[i] : i \in 1..Len(Call.log)}
TableReads == {"read:feat_csv"}
ConfigReads == {"read:features_f1.json"}

\* C6 as stated: a call with an unknown model key fails with UnknownModel
\* whatever files exist, and reads no configuration, model or scaler file.
C6_UnknownModelTouchesNothing ==
  (res # None /\ Call.model \notin ModelKeys) =>
    /\ ~Call.out.ok
    /\ Call.out.err = "UnknownModel"
    /\ LogSet \subseteq TableReads

\* C6 amended: a call with an unknown model key loads the feature table and
\* the configuration first; when both load it fails with UnknownModel, and
\* otherwise with their error.  In either case no model, scaler or static
\* bundle file is loaded or written.
C6_UnknownModelAfterBundle ==
  (res # None /\ Call.model \notin ModelKeys) =>
    /\ ~Call.out.ok
    /\ (feat # None /\ cfg # None) => Call.out.err = "UnknownModel"
    /\ (feat = None \/ cfg = None) => Call.out.err \in {"NotFound", "SchemaMismatch"}
    /\ LogSet \subseteq (TableReads \cup ConfigReads)

\* The first call of a process had the key "lstm": it read the table and the
\* configuration and then raised UnknownModel.
C6_Witness ==
  /\ res # None
  /\ Call.model = "lstm"
  /\ Call.out.err = "UnknownModel"
  /\ Call.log = <<"read:feat_csv", "read:features_f1.json">>

ContractErrors == {"VehicleNotFound", "InsufficientHistory", "SchemaMismatch"}

\* The step is a call that ends in one of the three errors.
FailingCall == res = None /\ res' # None /\ Get(res').out.err \in ContractErrors

\* C7 as stated: a call that ends in VehicleNotFound, InsufficientHistory or
\* SchemaMismatch leaves the files, the static cache files among them, as
\* they were.
C7_FailedCallLeavesDisk ==
  [][FailingCall => (static' = static /\ csv' = csv /\ cfgfile' = cfgfile)]_vars

\* C7 amended: a call that ends in one of the three errors returns no
\* result and leaves every file as it was, except that a gpr / svr call that
\* found its own cache file absent may have trained and written that file
\* before raising VehicleNotFound or InsufficientHistory.
C7_FailedCallWritesOwnCacheOnly ==
  [][FailingCall =>
       /\ Get(res').out.val = <<>>
       /\ csv' = csv /\ cfgfile' = cfgfile
       /\ \A k \in StaticKinds :
            \/ static'[k] = static[k]
            \/ /\ k = Get(res').model
               /\ static[k] = None
               /\ static'[k] # None /\ Get(static'[k]).complete
               /\ Get(res').out.err \in {"VehicleNotFound", "InsufficientHistory"}]_vars

\* A gpr call for a vehicle the table does not hold raised VehicleNotFound
\* after writing gpr_static.pkl.
C7_Witness ==
  /\ Raised
  /\ Call.model = "gpr"
  /\ Call.out.err = "VehicleNotFound"
  /\ Call.log = <<"read:feat_csv", "read:features_f1.json", "write:gpr_static.pkl">>
  /\ static["gpr"] # None

\* C8: however first-time callers of load_feat_df and of
\* _load_cfg_and_artifacts interleave, each loader body runs at most once
\* in the process.
C8_LoaderBodyRunsOnce == count["feat"] <= 1 /\ count["cfg"] <= 1

\* The threads that have returned from load_feat_df with a table.
GotTable == {t \in Threads : thr[t].op = "feat" /\ thr[t].pc = "done" /\ thr[t].ret.ok}

\* C9: every caller of load_feat_df that returns successfully holds the
\* cached table, the same one as every other caller; and a call that begins
\* once a table is cached never reads the file.
C9_OneTableForAll ==
  /\ \A t \in GotTable : feat # None /\ thr[t].ret.val = Get(feat)
  /\ \A t, u \in GotTable : thr[t].ret.val = thr[u].ret.val
  /\ \A t \in Threads : thr[t].warm => thr[t].pc \notin {"feat_body", "feat_store"}

\* C10: when run_forecast calls for the same static kind run concurrently
\* and no cache file exists, the regressor of that kind is trained at most
\* once and its cache file is written at most once.
C10_TrainedAndWrittenOnce ==
  \A k \in StaticKinds : count["train:" \o k] <= 1 /\ count["write:" \o k] <= 1

\* The threads whose joblib.load met a cache file whose content was not
\* complete.
LoadedPartial ==
  {t \in Threads : /\ thr[t].op \in StaticKinds
                   /\ thr[t].pc = "done"
                   /\ ~thr[t].ret.ok
                   /\ thr[t].ret.err = "ArtifactLoadError"}

\* C11: no caller of _get_or_train_static loads a cache file that is only
\* partially written: every load of an existing file finds the write of
\* that file completed.
C11_NeverLoadsPartialFile == LoadedPartial = {}

\* The highest 0-based index of a list at which it is not null.
LastNonNull(list) == CHOOSE i \in NonNull(list) : \A j \in NonNull(list) : j <= i

\* The 0-based entry i of a list of the result, as a number.
At(list, i) == Get(list[i + 1])

\* C12: in every returned result whose predicted window is not empty,
\* degradation_ah is exactly current_ca - last_predicted_ca.
C12_DegradationExact ==
  (Returned /\ NonNull(Result.predicted) # {}) =>
    Result.degradation_ah = Result.current_ca - Result.last_predicted_ca

\* A returned forecast whose last prediction lies above the last known
\* capacity: the degradation is negative.
C12_Witness ==
  /\ Returned
  /\ NonNull(Result.predicted) # {}
  /\ Result.degradation_ah < 0
  /\ Result.current_ca # Result.last_predicted_ca

\* C13: in every returned result degradation_pct is
\* degradation_ah / current_ca * 100 when current_ca > 0, and null exactly
\* when current_ca <= 0, so that nothing is divided by a non-positive
\* current_ca.
C13_PercentGuarded ==
  Returned =>
    /\ Result.current_ca > 0 =>
         Result.degradation_pct =
           Some([num |-> Result.degradation_ah * 100, den |-> Result.current_ca])
    /\ Result.degradation_pct = None <=> Result.current_ca <= 0
    /\ Result.degradation_pct # None => Get(Result.degradation_pct).den > 0

\* A returned result whose last known capacity is 0 Ah: the percentage is
\* null although the degradation itself is not zero.
C13_Witness ==
  /\ Returned
  /\ Result.current_ca = 0
  /\ Result.degradation_ah # 0
  /\ Result.degradation_pct = None

\* The error of the pair (a, p): absolute for mae, squared for rmse.
PairError(kind, a, p) == IF kind = "mae" THEN Abs(a - p) ELSE (a - p) * (a - p)

\* The fraction sum / count of the errors over the non-null indices of
\* predicted.
Over(r, kind) ==
  LET idx == NonNull(r.predicted)
      seq == [j \in 1..Len(r.predicted) |->
                IF (j - 1) \in idx
                THEN PairError(kind, At(r.actual, j - 1), At(r.predicted, j - 1))
                ELSE 0]
  IN  [num |-> SumSeq(seq), den |-> Cardinality(idx)]

\* The call reached a forecaster with enough history, and the horizon asked
\* for leaves the predicted window empty.
EmptyWindowCall ==
  /\ res # None
  /\ feat # None
  /\ cfg # None
  /\ Call.model \in ModelKeys
  /\ ForecasterReady
  /\ Cardinality(KnownRows(Call.vehicle)) > ResolvedNKnown
  /\ Call.max_h <= 0

\* C14: mae and rmse of a returned result are taken over exactly the
\* indices where predicted is not null, pairing actual[i] with predicted[i];
\* and for every model key a call whose predicted window is empty returns a
\* result whose mae and rmse are both null.
C14_MetricsOverWindow ==
  /\ (Returned /\ NonNull(Result.predicted) # {}) =>
       /\ Result.mae = Some(Over(Result, "mae"))
       /\ Result.rmse = Some(Over(Result, "rmse"))
  /\ EmptyWindowCall => Returned /\ Result.mae = None /\ Result.rmse = None

\* Beside C14: the first half alone, and the second half for the calls that
\* do return.
MetricsOfReturnedResults ==
  Returned =>
    IF NonNull(Result.predicted) # {}
    THEN /\ Result.mae = Some(Over(Result, "mae"))
         /\ Result.rmse = Some(Over(Result, "rmse"))
    ELSE Result.mae = None /\ Result.rmse = None

\* C15: in every returned result current_ca is actual[n_known - 1], with
\* n_known the resolved lookback, and last_predicted_ca is the predicted
\* value at the highest index where predicted is not null, or actual[T - 1]
\* when predicted is null throughout.
C15_CurrentAndLast ==
  Returned =>
    /\ Result.n_known = ResolvedNKnown
    /\ Result.current_ca = At(Result.actual, ResolvedNKnown - 1)
    /\ Result.last_predicted_ca =
         IF NonNull(Result.predicted) # {}
         THEN At(Result.predicted, LastNonNull(Result.predicted))
         ELSE At(Result.actual, Len(Result.actual) - 1)

\* A returned result with one known month whose window ends before the
\* last month of the vehicle, so that the last known, the last predicted
\* and the last actual value are three different entries.
C15_Witness ==
  /\ Returned
  /\ Result.n_known = 1
  /\ Len(Result.actual) = 3
  /\ NonNull(Result.predicted) = {1}
  /\ Result.last_predicted_ca # At(Result.actual, 2)
  /\ Result.last_predicted_ca # Result.current_ca

\* A returned result whose predicted list is null throughout: the last
\* predicted capacity is the last actual one.
C15_FallbackReached ==
  /\ Returned
  /\ NonNull(Result.predicted) = {}
  /\ Result.last_predicted_ca = At(Result.actual, Len(Result.actual) - 1)
  /\ Result.last_predicted_ca # Result.current_ca

\* The lookback the claim expects for the call that has just ended: the
\* argument when it is positive, else the N_KNOWN of features_f1.json (6
\* when the file does not give one).
ExpectedNKnown ==
  IF Call.n_known # None /\ Get(Call.n_known) > 0 THEN Get(Call.n_known)
  ELSE IF Get(cfgfile).N_KNOWN = None THEN 6
  ELSE Get(Get(cfgfile).N_KNOWN)

\* The call got to the history check of its forecaster: table and bundle
\* are loaded, the key is one of the three, the forecaster's files and
\* columns are there, and the vehicle has a row with a capacity.
ReachedHistoryCheck ==
  /\ res # None
  /\ feat # None
  /\ cfg # None
  /\ Call.model \in ModelKeys
  /\ ForecasterReady
  /\ KnownRows(Call.vehicle) # {}

\* C16: run_forecast resolves n_known to the bundle's default when the
\* argument is None or not positive and uses a positive argument as it is;
\* the resolved value is the one reported in the result, the one the
\* forecast window starts at, the one current_ca is read at, and the one the
\* history check compares with the number of rows.
C16_ResolvedLookback ==
  /\ Returned =>
       /\ Result.n_known = ExpectedNKnown
       /\ \A i \in NonNull(Result.predicted) : i >= ExpectedNKnown
       /\ (CompleteRows /\ Call.max_h > 0) => ExpectedNKnown \in NonNull(Result.predicted)
       /\ Result.current_ca = At(Result.actual, ExpectedNKnown - 1)
  /\ ReachedHistoryCheck =>
       (Call.out.err = "InsufficientHistory" <=>
          Cardinality(KnownRows(Call.vehicle)) <= ExpectedNKnown)

\* A call with the argument -1 returned a result that reports the
\* configured default of 2 and predicts from index 2 on.
C16_Witness ==
  /\ Returned
  /\ Call.n_known = Some(0 - 1)
  /\ Result.n_known = 2
  /\ NonNull(Result.predicted) = {2}

\* The call that has just ended was for a vehicle that has rows with a
\* capacity, with one of the three model keys, on a table that lacks a
\* column named in use_features.
FeatureColumnMissing ==
  /\ res # None
  /\ feat # None
  /\ cfgfile # None
  /\ Call.model \in ModelKeys
  /\ KnownRows(Call.vehicle) # {}
  /\ \E j \in 1..Len(Get(cfgfile).USE_FEATURES) :
       Get(cfgfile).USE_FEATURES[j] \notin Get(feat).cols

\* C17: when a name in use_features is not a column of the feature table, a
\* call for an existing vehicle fails with SchemaMismatch, for every model
\* key and whether or not a static cache file exists.
C17_MissingFeatureIsSchemaMismatch ==
  FeatureColumnMissing => ~Call.out.ok /\ Call.out.err = "SchemaMismatch"

\* Beside C17: the claim holds for seq2seq_gpr, and for gpr / svr when the
\* cache file of the kind was there before the call.
MissingFeatureWithBundleAtHand ==
  (FeatureColumnMissing /\ artifacts /\
     (Call.model \in StaticKinds => "load:" \o Call.model \o "_static.pkl" \in LogSet)) =>
    ~Call.out.ok /\ Call.out.err = "SchemaMismatch"

\* The call that has just ended, with one of the three model keys, was for
\* a vehicle of which the loaded table holds no row with a capacity.
NoRowsCall ==
  /\ res # None
  /\ feat # None
  /\ Call.model \in ModelKeys
  /\ KnownRows(Call.vehicle) = {}

\* C18 as stated: a call for a vehicle without a row that holds a capacity
\* fails with VehicleNotFound, for every model key, n_known and horizon.
C18_NoRowsAlwaysVehicleNotFound ==
  NoRowsCall => ~Call.out.ok /\ Call.out.err = "VehicleNotFound"

\* What the forecaster of the call loads before it builds the slice: the
\* five artifacts (seq2seq_gpr), or the bundle of the kind, loaded or
\* trained and written (gpr, svr).
BundleAtHand ==
  /\ Call.model = "seq2seq_gpr" => artifacts
  /\ Call.model \in StaticKinds => static[Call.model] # None

\* C18 amended: once the table and the configuration have loaded and the
\* forecaster's artifacts have loaded (or its baseline has trained), a call
\* for a vehicle without a row that holds a capacity fails with
\* VehicleNotFound, whatever n_known and horizon are.
C18_NoRowsVehicleNotFound ==
  (NoRowsCall /\ cfg # None /\ BundleAtHand) =>
    ~Call.out.ok /\ Call.out.err = "VehicleNotFound" /\ Call.out.val = <<>>

\* A gpr call for vehicle 1, whose only row in the table holds no capacity,
\* ended in VehicleNotFound.
C18_Witness ==
  /\ NoRowsCall
  /\ cfg # None
  /\ BundleAtHand
  /\ Call.model = "gpr"
  /\ Call.vehicle = 1
  /\ \E i \in 1..Len(Get(feat).rows) : Get(feat).rows[i].vehicle = 1
  /\ Call.out.err = "VehicleNotFound"

\* The call that has just ended, made once more: in the same process, with
\* the caches and cache files it left, and in a fresh process that finds the
\* same files.
Again == RunForecast(Env, Call.vehicle, Call.model, Call.n_known, Call.max_h)
AgainAfterRestart ==
  RunForecast([Env EXCEPT !.feat = None, !.cfg = None],
              Call.vehicle, Call.model, Call.n_known, Call.max_h)

InternalSeries ==
  IF Call.model = "seq2seq_gpr"
  THEN Seq2SeqCurve(CallSlice, Result.n_known, Call.max_h).val.y_pred
  ELSE StaticCurve(CallSlice, Result.n_known, Call.max_h,
                   Get(static[Call.model]).bundle).val.y_pred

\* An entry of a result list is the null marker or a number.
NullOrNumber(x) == x = None \/ (Len(x) = 1 /\ Get(x) \in Int)

\* C20: in every returned result predicted is null at exactly the positions
\* where the forecaster's series is NaN and carries the series' value
\* elsewhere, and every entry of actual and predicted is a number or the
\* null marker, never a NaN.
C20_NullExactlyWhereNaN ==
  Returned =>
    /\ Len(Result.predicted) = Len(InternalSeries)
    /\ \A i \in 1..Len(InternalSeries) :
         IF IsNaN(InternalSeries[i]) THEN Result.predicted[i] = None
         ELSE Result.predicted[i] = Some(InternalSeries[i].v)
    /\ \A i \in 1..Len(Result.predicted) : NullOrNumber(Result.predicted[i])
    /\ \A i \in 1..Len(Result.actual) : NullOrNumber(Result.actual[i])

\* A returned seq2seq_gpr result whose series holds a number and a NaN
\* inside the forecast window: a number at index 1, null at index 2.
C20_Witness ==
  /\ Returned
  /\ Call.model = "seq2seq_gpr"
  /\ Result.n_known = 1
  /\ Call.max_h >= 2
  /\ Len(Result.predicted) = 3
  /\ ~IsNaN(InternalSeries[2])
  /\ IsNaN(InternalSeries[3])
  /\ Result.predicted[2] # None
  /\ Result.predicted[3] = None

\* ----------------------------------------------------------------- C21
\* The /auth call that has just ended.
AuthCall == Get(ares)

\* The operators a reader of operators.json finds.
Stored == LoadOperators(operators)

\* No two records of ops share an employee_id, an email or an operator_id.
Distinct(ops) ==
  \A i, j \in 1..Len(ops) :
    i # j => /\ ops[i].employee_id # ops[j].employee_id
             /\ ops[i].email # ops[j].email
             /\ ops[i].operator_id # ops[j].operator_id

\* The form is complete and names a known employee, and the record it asks
\* for has the email or the employee id of a record of ops.
WouldDuplicate(form, ops) ==
  /\ Lower(Strip(form[1])) # EmptyText
  /\ form[2] # ""
  /\ Strip(form[3]) # EmptyText
  /\ IsNone(employee_ids) \/ Strip(form[3]) \in Get(employee_ids)
  /\ \E i \in 1..Len(ops) : \/ ops[i].email = Lower(Strip(form[1]))
                            \/ ops[i].employee_id = Strip(form[3])

\* A register_operator call ends in this step, having found the list Stored.
RegisterEnds(form) ==
  /\ ares = None
  /\ ares' # None
  /\ Get(ares').op = "register"
  /\ Get(ares').arg = form
  /\ areq' = areq

\* C21: whatever register_operator and reset_operator_password calls have
\* run, no two stored operators share an employee_id, an email or an
\* operator_id; and a register_operator call whose record would repeat the
\* employee_id or the email of a stored operator raises
\* OperatorAlreadyExists and leaves operators.json as it was.
C21_NoDuplicateOperators ==
  /\ [](Distinct(Stored))
  /\ [][\A form \in RegisterForms :
          RegisterEnds(form) /\ WouldDuplicate(form, Stored) =>
            /\ Get(ares').ret = Fail("OperatorAlreadyExists")
            /\ operators' = operators]_vars

\* An operator is stored, and a registration for another employee that
\* repeats the operator's email, typed in capitals, has been refused.
C21_Witness ==
  /\ ares # None
  /\ AuthCall.op = "register"
  /\ AuthCall.arg[1] = Text("ann@x", "u", TRUE)
  /\ AuthCall.arg[3] = E2
  /\ AuthCall.ret = Fail("OperatorAlreadyExists")
  /\ \E i \in 1..Len(Stored) : Stored[i].email = Ann /\ Stored[i].employee_id = E1

\* ----------------------------------------------------------------- C22
\* What the client of /auth/forgot-password sees of an answer.
Response(answer) == [status |-> answer.status, message |-> answer.message]

\* C22: every forgot-password request gets the status and the message the
\* same request gets when no operator is registered at all, so the answer
\* does not tell whether the email belongs to an operator.
C22_ForgotAnswerTellsNothing ==
  ares # None /\ AuthCall.op = "forgot" /\ AuthCall.arg[1] # EmptyText =>
    Response(AuthCall.ret.val) = Response(ForgotPassword(None, AuthCall.arg[1]))

\* A forgot-password request for the email of a stored operator, typed in
\* capitals, has been answered and the reset mail is on its way.
C22_Witness ==
  /\ ares # None
  /\ AuthCall.op = "forgot"
  /\ AuthCall.arg[1] = Text("ann@x", "u", TRUE)
  /\ AuthCall.ret.val.mail = Some(Ann)
  /\ \E i \in 1..Len(Stored) : Stored[i].email = Ann

\* ----------------------------------------------------------------- C23
\* The seq2seq_gpr call that has just ended entered the forecast loop: table
\* and bundle are loaded, the artifacts and columns are there, and the
\* vehicle has more rows than the lookback.
EnteredLoop ==
  /\ ReachedHistoryCheck
  /\ Call.model = "seq2seq_gpr"
  /\ ResolvedNKnown < Cardinality(KnownRows(Call.vehicle))

\* The steps of the loop of that call.
CallWindows ==
  Seq2SeqWindows(CallSlice, PySlice(CallSlice.c, 0, ResolvedNKnown), ResolvedNKnown,
                 ResolvedNKnown + Min(Call.max_h, Len(CallSlice.c) - ResolvedNKnown),
                 ResolvedNKnown)

\* The capacity the claim puts at 0-based index idx of the trajectory: the
\* measured one below n_known, the one predicted at idx from there on.
Trajectory(tr, sl, n_known, idx) ==
  IF idx < n_known THEN sl.c[idx + 1] ELSE tr[idx - n_known + 1].y.val

\* Step number i of the loop is as C23 says.
StepAsClaimed(tr, i, sl, n_known) ==
  /\ tr[i].k = n_known + i - 1
  /\ Len(tr[i].c_win) = tr[i].k
  /\ Len(tr[i].Wc) = n_known
  /\ Len(tr[i].Wx) = n_known
  /\ \A j \in 0..(n_known - 1) :
       /\ tr[i].Wc[j + 1] = Trajectory(tr, sl, n_known, tr[i].k - n_known + j)
       /\ tr[i].Wx[j + 1] = sl.X[tr[i].k - n_known + j + 1]

\* The value predicted at step number i is in the window of each later step
\* up to k + n_known, in the row of index k.
FedForward(tr, i, n_known) ==
  \A i2 \in (i + 1)..Len(tr) :
    tr[i2].k <= tr[i].k + n_known =>
      tr[i2].Wc[tr[i].k - (tr[i2].k - n_known) + 1] = tr[i].y.val

\* C23: at every step k of the forecast loop, k running from n_known to
\* n_known + H - 1, c_win has length k and the window has n_known rows, row
\* j pairing the capacity of index k - n_known + j (measured below n_known,
\* predicted from there on) with feature row X[k - n_known + j]; a call
\* that returns has run all H steps; and the value predicted at a step is in
\* the window of every later step up to k + n_known.
C23_WindowStructure ==
  EnteredLoop =>
    /\ \A i \in 1..Len(CallWindows) :
         /\ StepAsClaimed(CallWindows, i, CallSlice, ResolvedNKnown)
         /\ FedForward(CallWindows, i, ResolvedNKnown)
    /\ Returned => Len(CallWindows) = Max(0, Min(Call.max_h, Len(CallSlice.c) - ResolvedNKnown))

\* A seq2seq_gpr call with one known month has run two steps: the window of
\* the second holds the value the first predicted.
C23_Witness ==
  /\ EnteredLoop
  /\ Returned
  /\ ResolvedNKnown = 1
  /\ Len(CallWindows) = 2
  /\ CallWindows[2].Wc = <<CallWindows[1].y.val>>
  /\ CallWindows[2].Wc # <<CallSlice.c[2]>>

\* ----------------------------------------------------------------- C24
\* C24 as stated: in one process the artifact files of the hybrid forecaster
\* are loaded at most once, however many seq2seq_gpr forecasts it serves.
C24_ArtifactsLoadedOnce == count["artifacts"] <= 1

\* ----------------------------------------------------------------- C25
\* A run_forecast call for static kind k ends in this step.
StaticCallEnds(k) == res = None /\ res' # None /\ Get(res').model = k

\* The log entries of a call that touch the cache file of kind k.
CacheLoad(k) == "load:" \o k \o "_static.pkl"
CacheWrite(k) == "write:" \o k \o "_static.pkl"
Entries(log) == {log[i] : i \in 1..Len(log)}

\* The other static kind.
OtherKind(k) == CHOOSE o \in StaticKinds : o # k

\* C25: with calls one after another, a call for a static kind trains and
\* writes that kind's cache file only when it finds none, and a cache file
\* once written stays: so each file is written at most once.  A call that
\* finds the file, and gets its table and bundle, loads it, does not write
\* it, and leaves it as it was.  A call for one kind neither loads nor
\* writes nor changes the other kind's file.
C25_TrainOnceThenLoad ==
  [][/\ \A k \in StaticKinds : static[k] # None => static'[k] # None
     /\ \A k \in StaticKinds :
          StaticCallEnds(k) =>
            /\ CacheWrite(k) \in Entries(Get(res').log) =>
                 static[k] = None /\ static'[k] # None
            /\ static[k] # None =>
                 /\ static'[k] = static[k]
                 /\ CacheWrite(k) \notin Entries(Get(res').log)
                 /\ (feat' # None /\ cfg' # None) => CacheLoad(k) \in Entries(Get(res').log)
            /\ static[k] = None => CacheLoad(k) \notin Entries(Get(res').log)
            /\ static'[OtherKind(k)] = static[OtherKind(k)]
            /\ CacheLoad(OtherKind(k)) \notin Entries(Get(res').log)
            /\ CacheWrite(OtherKind(k)) \notin Entries(Get(res').log)]_vars

\* A gpr call of a deployment that began without cache files returned after
\* loading gpr_static.pkl, which an earlier call of the run had written; no
\* svr_static.pkl has appeared.
C25_Witness ==
  /\ csv = Some(FullFile)
  /\ Returned
  /\ Call.model = "gpr"
  /\ CacheLoad("gpr") \in LogSet
  /\ static["gpr"] # None
  /\ static["svr"] = None

\* ----------------------------------------------------------------- C26
\* A call has ended in a deployment whose feature table lacks Tmax_ave or
\* Tmin_ave.
LacksTemperature == res # None /\ csv # None /\ (NeededCols \ Get(csv).cols) # {}

\* C26 as stated: when the table lacks Tmax_ave or Tmin_ave, every
\* run_forecast call fails with SchemaMismatch.
C26_LackingTemperatureAlwaysSchemaMismatch ==
  LacksTemperature => ~Call.out.ok /\ Call.out.err = "SchemaMismatch"

\* C26 amended: when the table lacks Tmax_ave or Tmin_ave and
\* features_f1.json exists, every run_forecast call, whatever its model key
\* and arguments, fails with SchemaMismatch, returns no result, caches no
\* bundle and touches no cache file of the static baselines; when
\* features_f1.json is absent the call fails with NotFound instead.
C26_LackingTemperatureSchemaMismatch ==
  LacksTemperature =>
    /\ ~Call.out.ok
    /\ Call.out.val = <<>>
    /\ Call.out.err = IF cfgfile # None THEN "SchemaMismatch" ELSE "NotFound"
    /\ cfg = None
    /\ \A k \in StaticKinds :
         CacheLoad(k) \notin LogSet /\ CacheWrite(k) \notin LogSet

\* A gpr call found gpr_static.pkl on disk and a table without Tmax_ave: it
\* raised SchemaMismatch and never opened the cache file.
C26_Witness ==
  /\ LacksTemperature
  /\ cfgfile # None
  /\ Call.model = "gpr"
  /\ static["gpr"] # None
  /\ Call.out.err = "SchemaMismatch"

\* --------------------------------------------------------------- C27
\* the table load_feat_df returned, and the slices built from it
Table == Get(feat)

KeysDistinct(rows) ==
  \A i, j \in 1..Len(rows) :
    (rows[i].vehicle = rows[j].vehicle /\ rows[i].month_ts = rows[j].month_ts) => i = j

VehiclesIn(rows) == {rows[i].vehicle : i \in 1..Len(rows)}

SliceOf(vid) == BuildVehicleSlice(Table, vid, Get(cfg).use_features)

StrictlyIncreasing(d) == \A i \in 1..(Len(d) - 1) : d[i].month_ts < d[i + 1].month_ts

Aligned(sl, use_features) ==
  /\ Len(sl.c) = Len(sl.d) /\ Len(sl.X) = Len(sl.d) /\ Len(sl.mon) = Len(sl.d)
  /\ \A i \in 1..Len(sl.d) :
       /\ sl.c[i] = sl.d[i].Ca
       /\ sl.mon[i] = sl.d[i].Month
       /\ Len(sl.X[i]) = Len(use_features)
       /\ \A j \in 1..Len(use_features) : sl.X[i][j] = sl.d[i][use_features[j]]

\* C27: the cached table has no two rows with the same (vehicle, month_ts),
\* and every slice built from it is in strictly increasing month_ts order,
\* with c, X and mon read off the same rows index by index.
C27_UniqueKeysOrderedSlices ==
  ~IsNone(feat) =>
    /\ KeysDistinct(Table.rows)
    /\ ~IsNone(cfg) =>
         \A vid \in VehiclesIn(Table.rows) :
           SliceOf(vid).ok =>
             /\ StrictlyIncreasing(SliceOf(vid).val.d)
             /\ Aligned(SliceOf(vid).val, Get(cfg).use_features)

\* The file lists a vehicle newest month first and one month twice; the
\* table is loaded and a slice of two rows or more was built from it.
C27_Witness ==
  /\ ~IsNone(feat) /\ ~IsNone(cfg) /\ ~IsNone(csv)
  /\ \E i, j \in 1..Len(Get(csv).rows) :
       /\ i < j
       /\ Get(csv).rows[i].vehicle = Get(csv).rows[j].vehicle
       /\ Get(csv).rows[i].month_ts > Get(csv).rows[j].month_ts
  /\ ~KeysDistinct(Get(csv).rows)
  /\ SliceOf(1).ok /\ Len(SliceOf(1).val.d) >= 2

\* --------------------------------------------------------------- C28
\* A login that has just been answered, for an operator whose password was
\* reset before the login was made.
LoginAfterResetAnswered ==
  /\ ~IsNone(ares)
  /\ AuthCall.op = "login"
  /\ ~IsNone(AuthCall.since)

\* C28: after a successful reset of an operator's password to p, and until
\* the next reset for that operator, a login with p succeeds and a login
\* with a password of another hash fails with ValueError.
C28_LoginAfterReset ==
  LoginAfterResetAnswered =>
    LET p == Get(AuthCall.since)
        password == AuthCall.arg[2]
    IN  /\ password = p => AuthCall.ret.ok
        /\ HashPassword(password) # HashPassword(p) => AuthCall.ret = Fail("ValueError")

\* ------------------------------------------------------- fleet registry
\* fleet_registry.sqlite3: the vehicles table (vehicle_uid UNIQUE) and the
\* telemetry_monthly table.  Nothing in the repository inserts telemetry
\* rows; the table is filled from outside, so it starts with any rows.
\* An operator id is its first two characters and the rest; SQLite compares
\* text byte by byte, so "aa000" and "AA000" are two operators.
FleetOperatorIds ==
  {[head |-> "AA", rest |-> "000"], [head |-> "aa", rest |-> "000"],
   [head |-> "ZZ", rest |-> "999"]}

UpperHead(head) == IF head = "aa" THEN "AA" ELSE head

\* operator_id[:2].upper() + "-" + secrets.token_hex(2).upper()
GenerateVehicleUid(operator_id) ==
  {[head |-> UpperHead(operator_id.head), suffix |-> s] : s \in 1..MaxSuffix}

VehicleUidArgs ==
  {[head |-> h, suffix |-> s] : h \in {"AA", "aa", "ZZ"}, s \in 1..MaxSuffix}

TelemetryRows ==
  {[vehicle_uid |-> [head |-> "AA", suffix |-> 1], month_ts |-> 1],
   [vehicle_uid |-> [head |-> "AA", suffix |-> 1], month_ts |-> 2],
   [vehicle_uid |-> [head |-> "AA", suffix |-> 2], month_ts |-> 1],
   [vehicle_uid |-> [head |-> "ZZ", suffix |-> 1], month_ts |-> 1]}

\* register_vehicle: one INSERT; a vehicle_uid already in the table breaks
\* the UNIQUE constraint and nothing is inserted.
RegisterVehicle(vs, operator_id, display_name, vehicle_uid) ==
  IF \E v \in vs : v.vehicle_uid = vehicle_uid
  THEN [out |-> Fail("IntegrityError"), vehicles |-> vs]
  ELSE [out |-> Ok([vehicle_id |-> vehicle_uid, display_name |-> display_name]),
        vehicles |-> vs \cup {[operator_id |-> operator_id, vehicle_uid |-> vehicle_uid,
                               display_name |-> display_name]}]

\* A delete that looks the vehicle up by its uid alone.
DeleteVehicleAnyOperator(vs, tm, operator_id, vehicle_uid) ==
  LET found == {v \in vs : v.vehicle_uid = vehicle_uid}
  IN  IF found = {}
      THEN [out |-> Fail("ValueError"), vehicles |-> vs, telemetry |-> tm]
      ELSE [out |-> Ok([operator_id |-> operator_id, vehicle_id |-> vehicle_uid,
                        removed |-> TRUE, display_name |-> (CHOOSE v \in found : TRUE).display_name]),
            vehicles |-> vs \ found,
            telemetry |-> {r \in tm : r.vehicle_uid # vehicle_uid}]

\* delete_vehicle, one connection and one transaction: SELECT by operator
\* and uid, ValueError when there is no row, else both DELETEs and commit.
DeleteVehicle(vs, tm, operator_id, vehicle_uid) ==
  LET found == {v \in vs : v.operator_id = operator_id /\ v.vehicle_uid = vehicle_uid}
  IN  IF found = {}
      THEN [out |-> Fail("ValueError"), vehicles |-> vs, telemetry |-> tm]
      ELSE [out |-> Ok([operator_id |-> operator_id, vehicle_id |-> vehicle_uid,
                        removed |-> TRUE, display_name |-> (CHOOSE v \in found : TRUE).display_name]),
            vehicles |-> vs \ found,
            telemetry |-> {r \in tm : r.vehicle_uid # vehicle_uid}]

InitFleet ==
  /\ MlAtRest
  /\ AuthAtRest
  /\ vehicles = {}
  /\ telemetry \in SUBSET TelemetryRows
  /\ fres = None

FleetAnswered(op, arg, ret) == fres' = Some([op |-> op, arg |-> arg, ret |-> ret])

\* POST /operators/{operator_id}/vehicles: an async def endpoint, so the
\* registry call runs on the event loop with no other request in between.
RegisterVehicleCall(operator_id) ==
  /\ fres = None
  /\ \E vehicle_uid \in GenerateVehicleUid(operator_id) :
       LET r == RegisterVehicle(vehicles, operator_id, "car", vehicle_uid)
       IN  /\ vehicles' = r.vehicles
           /\ FleetAnswered("register", <<operator_id>>, r.out)
  /\ UNCHANGED <<telemetry, MlVars, AuthVars>>

\* POST /operators/{operator_id}/vehicles/{vehicle_id}/delete
DeleteVehicleCall(operator_id, vehicle_uid) ==
  /\ fres = None
  /\ LET r == DeleteVehicle(vehicles, telemetry, operator_id, vehicle_uid)
     IN  /\ vehicles' = r.vehicles
         /\ telemetry' = r.telemetry
         /\ FleetAnswered("delete", <<operator_id, vehicle_uid>>, r.out)
  /\ UNCHANGED <<MlVars, AuthVars>>

\* The answer goes out to the client.
FleetRespond ==
  /\ fres # None
  /\ fres' = None
  /\ UNCHANGED <<vehicles, telemetry, MlVars, AuthVars>>

NextFleet ==
  \/ \E o \in FleetOperatorIds : RegisterVehicleCall(o)
  \/ \E o \in FleetOperatorIds, u \in VehicleUidArgs : DeleteVehicleCall(o, u)
  \/ FleetRespond

SpecFleet == InitFleet /\ [][NextFleet]_vars

\* --------------------------------------------------------------- C29
FleetCall == Get(fres)

RegisteredTo(operator_id, vehicle_uid) ==
  \E v \in vehicles : v.operator_id = operator_id /\ v.vehicle_uid = vehicle_uid

DeleteEnds(operator_id, vehicle_uid) ==
  /\ fres = None /\ fres' # None
  /\ Get(fres').op = "delete"
  /\ Get(fres').arg = <<operator_id, vehicle_uid>>

\* C29: a delete of a vehicle registered to the operator removes that
\* vehicle's row and every telemetry row of that vehicle and nothing else;
\* any other delete raises ValueError and leaves both tables as they were.
C29_DeleteOnlyOwnVehicle ==
  [][\A o \in FleetOperatorIds, u \in VehicleUidArgs :
       DeleteEnds(o, u) =>
         IF RegisteredTo(o, u)
         THEN /\ Get(fres').ret.ok
              /\ vehicles' = {v \in vehicles : v.vehicle_uid # u}
              /\ telemetry' = {r \in telemetry : r.vehicle_uid # u}
         ELSE /\ Get(fres').ret = Fail("ValueError")
              /\ vehicles' = vehicles
              /\ telemetry' = telemetry]_vars

\* A delete has removed a vehicle while another operator's vehicle with
\* telemetry rows stays registered, and no row of the deleted one is left.
C29_Witness ==
  /\ ~IsNone(fres)
  /\ FleetCall.op = "delete" /\ FleetCall.ret.ok
  /\ \E v \in vehicles :
       /\ v.operator_id # FleetCall.arg[1]
       /\ \E r \in telemetry : r.vehicle_uid = v.vehicle_uid
  /\ \A r \in telemetry : r.vehicle_uid # FleetCall.arg[2]
  /\ \A v \in vehicles : v.vehicle_uid # FleetCall.arg[2]

====
